---------------------------- MODULE Spec2Model ----------------------------
(***************************************************************************)
(* A model of the AI trend research system.                                *)
(*                                                                         *)
(*   Spec, FairSpec     one process running main() of ai_trend_researcher: *)
(*                      connect_mcp_servers, the research loop, keyword    *)
(*                      extraction and scoring, the keyword store, report  *)
(*                      writing, and the close of every tool session.      *)
(*   SigSpec, FairSigSpec  the same process with a termination signal, whose *)
(*                      handler task force_cleanup_and_exit shares the     *)
(*                      session map with the main flow.                    *)
(*   MgrSpec            MCPClientManager of mcp_client_manager.py under    *)
(*                      any sequence of connect_all_servers, call_tool and *)
(*                      close_all_clients.                                 *)
(*   ReportSpec         ReportManager.generate_all_reports.                *)
(***************************************************************************)
EXTENDS Integers, Sequences, FiniteSets, TLC

(***************************************************************************)
(* Configuration of AITrendResearcher.__init__.                            *)
(***************************************************************************)

\* The enabled entries of self.mcp_servers, in the dictionary's order.
Servers == <<"youtube", "web", "notion">>

ServerSet == {Servers[i] : i \in 1..Len(Servers)}

\* self.platforms
Platforms == <<"web", "youtube">>

\* The default limit of refresh_active_keywords.
RefreshLimit == 5

\* datetime.now().strftime("%Y-%m-%d") during the cycle, and an earlier day.
Today == "d1"

Yesterday == "d0"

(***************************************************************************)
(* Bounds of the model.                                                    *)
(***************************************************************************)

\* The largest number of items one tool response is taken to carry.
MaxItems == 1

\* connect_all_servers calls a caller of MCPClientManager makes.
MaxConnectAlls == 2

\* The largest limit a caller of KeywordManager passes.
MaxLimit == 2

\* The calls a caller of KeywordManager makes.
MaxCalls == 3

\* data['results'][:3], [...][:200] and [...][:10] in KeywordExtractor
DigestItems == 3
DescriptionLimit == 200
FallbackLimit == 10

\* validated_blocks[:20], len(content) > 2000 and "..." in
\* NotionReportGenerator
BlockLimit == 20
ContentLimit == 2000
EllipsisLength == 3

\* The new keywords and the platforms of a report given to
\* create_notion_report.
MaxReportKeywords == 2
MaxPlatforms == 16

\* The posts of one HackerNews response, and the broader keywords tried
\* after a search without meaningful results.
MaxPosts == 3
MaxBroader == 1

\* The keywords a reply of the completion service suggests for the broader
\* searches, and the number of them that is kept (broader_keywords[:3]).
MaxSuggested == 4
BroaderLimit == 3

\* The ages in days given to the trend scores: every age up to MaxAge, and
\* the ages next to the thresholds of the recency bonuses.
MaxAge == 8

\* The items one tool response describes to a handler's process_response.
MaxDescribed == 3




\* The results one keyword's research accumulates, and the keywords that
\* meet the same results, in the data score_keywords is given.
MaxResults == 3
MaxRounds == 4

(***************************************************************************)
(* Inputs drawn by Init and by the environment.                            *)
(***************************************************************************)

\* A keyword record of keywords/master.json (the dictionary is kept as the
\* sequence of its entries, in insertion order).
KeywordRecord(term, score, last_used, source, created_date, discovered_from) ==
    [term |-> term, score |-> score, last_used |-> last_used,
     source |-> source, created_date |-> created_date,
     discovered_from |-> discovered_from]

\* A seeded record (created before today, no "discovered_from" entry), or
\* one the cycle added today.
KwRecord(term, score, last_used, source) ==
    KeywordRecord(term, score, last_used, source,
                  IF source = "seed" THEN Yesterday ELSE Today,
                  IF source = "seed" THEN "absent" ELSE "daily_research")

\* The store files of a first run.
EmptyStores == [master |-> << >>, active |-> << >>]

\* The store files left by a cycle on one keyword.
OneKeywordStores ==
    [master |-> << KwRecord("ai", 80, Yesterday, "seed") >>,
     active |-> << "ai" >>]

\* The store files a process may find when it starts: a first run with
\* nothing, a seeded master with an empty active file, and stores left by
\* earlier cycles (the active file is only written from master's terms).
InitialStores ==
    { EmptyStores,
      [master |-> << KwRecord("ai", 80, "null", "seed") >>, active |-> << >>],
      OneKeywordStores,
      [master |-> << KwRecord("llm", 70, Yesterday, "seed"),
                     KwRecord("ai", 80, Yesterday, "seed") >>,
       active |-> << "ai", "llm" >>] }

\* reports/ai_trends_<today>.json before the cycle writes it, and after a
\* write that raised midway.
NoReport == [written |-> "absent"]

PartialReport == [written |-> "partial"]

\* What the completion service's reply parses to in extract_new_keywords.
ExtractedLists == { << >>, << "rag" >>, << "ai", "rag" >>, << "rag", "rag" >> }

\* The terms the text of a response's items may mention besides the
\* researched keyword: the items are taken to mention the term the
\* completion service goes on to extract from them.
MentionSets == { {"rag"} }

VARIABLES
    \* ---- the process running main() ----
    pc,                \* where the main flow is
    ci,                \* connect_mcp_servers: index into Servers
    client,            \* the RemoteMCPClient created for each server
    mcp_clients,       \* self.mcp_clients, as the sequence of its entries
    iter,              \* the dictionary iterator of each task's close-all
    closer,            \* which close-all the main flow runs: "run" | "main"
    active_keywords,   \* run_daily_research's local
    ki, pi,            \* research loop indexes
    all_research_data, \* run_daily_research's local
    attempts,          \* what happened for each appended result
    new_keywords,      \* run_daily_research's local
    masterFile,        \* keywords/master.json
    activeFile,        \* keywords/active.json
    historyFile,       \* keywords/history.json
    reportFile,        \* reports/ai_trends_<today>.json
    notionCalls,       \* create-page invocations that reached the session
    toolCalls,         \* tool invocations that reached each server's session
    exc,               \* the exception propagating out of the try block
    outcome,           \* how control left run_daily_research
    proc,              \* the process: "running" | "exited" and its status
    sig                \* the signal handler task

pipeVars == << pc, ci, client, mcp_clients, iter, closer, active_keywords, ki,
               pi, all_research_data, attempts, new_keywords, masterFile,
               activeFile, historyFile, reportFile, notionCalls, toolCalls,
               exc, outcome, proc, sig >>

VARIABLES
    \* ---- a caller of MCPClientManager (mcp_client_manager.py) ----
    server_configs,    \* self.server_configs, as the sequence of its entries
    clients,           \* self.clients, as the sequence of its entries
    objs,              \* the RemoteMCPClient created last for each platform
    replaced,          \* platforms whose Connected client made way for a new one
    mpc,               \* where the caller is
    mi,                \* connect_all_servers: index into server_configs
    miter,             \* close_all_clients: position in self.clients
    connects,          \* connect_all_servers calls made so far
    op,                \* the manager operation called last
    before,            \* self.clients and the clients when op was called
    tried,             \* _connect_single_server calls of op, per platform
    connectResult,     \* what each of them met
    escaped,           \* an exception left a manager operation
    lastCall           \* the last call_tool: client state, effect, result

mgrVars == << server_configs, clients, objs, replaced, mpc, mi, miter, connects, op,
              before, tried, connectResult, escaped, lastCall >>

VARIABLES
    \* ---- a call of ReportManager.generate_all_reports ----
    generators,        \* what the ReportManager was constructed with
    rpc,               \* where the call is
    jsonFile,          \* reports/ai_trends_<today>.json
    sinkLog,           \* the generators that ran, in order, with what they met
    returned           \* how the call ended: "none" | "report_file" | "raised"

reportVars == << generators, rpc, jsonFile, sinkLog, returned >>

VARIABLES
    \* ---- a caller of KeywordManager (keyword_manager.py) ----
    kmMaster,          \* keywords/master.json, as the sequence of its entries
    kmActive,          \* keywords/active.json
    kmCall             \* the operation called last, its arguments and result

storeVars == << kmMaster, kmActive, kmCall >>

VARIABLES
    \* ---- the file system main() starts in ----
    keywordsDir        \* the directory keywords/ exists

envVars == << keywordsDir >>

VARIABLES
    \* ---- a call of one function of the adapters ----
    fnArgs,            \* the function called and its arguments
    fnStep,            \* where the call is
    fnResult           \* what the call has produced so far

fnVars == << fnArgs, fnStep, fnResult >>

\* What the steps of main() leave alone.
otherVars == << mgrVars, reportVars, storeVars, envVars, fnVars >>

\* What the steps of a caller of MCPClientManager leave alone.
notMgrVars == << pipeVars, reportVars, storeVars, envVars, fnVars >>

\* What the steps of generate_all_reports leave alone.
notReportVars == << pipeVars, mgrVars, storeVars, envVars, fnVars >>

\* What the steps of a caller of KeywordManager leave alone.
notStoreVars == << pipeVars, mgrVars, reportVars, envVars, fnVars >>

\* What a call of a function of the adapters leaves alone.
notFnVars == << pipeVars, mgrVars, reportVars, storeVars, envVars >>

vars == << pipeVars, mgrVars, reportVars, storeVars, envVars, fnVars >>


(***************************************************************************)
(* Small helpers.                                                          *)
(***************************************************************************)

Range(seq) == {seq[i] : i \in 1..Len(seq)}

Min(a, b) == IF a < b THEN a ELSE b

\* dict.get(key): the value stored under key, or "absent".
DictGet(d, key) ==
    IF \E i \in 1..Len(d) : d[i].key = key
    THEN (CHOOSE e \in Range(d) : e.key = key).val
    ELSE "absent"

\* d[key] = val: an existing key keeps its place, a new one is appended.
DictSet(d, key, val) ==
    IF \E i \in 1..Len(d) : d[i].key = key
    THEN [i \in 1..Len(d) |->
            IF d[i].key = key THEN [key |-> key, val |-> val] ELSE d[i]]
    ELSE Append(d, [key |-> key, val |-> val])

(***************************************************************************)
(* RemoteMCPClient of ai_trend_researcher.py.                              *)
(*                                                                         *)
(* session, exit_stack, connected and cleanup_attempted are the object's   *)
(* fields.  res is the state of the transport the exit stack owns: "none", *)
(* "open", "closing" (aclose running), "hung" (aclose running and never    *)
(* completing), "released" (aclose returned), "failed" (aclose raised).    *)
(* everConnected and acloseCalls record the object's history.              *)
(***************************************************************************)

\* RemoteMCPClient.__init__ (before the object is created: created = FALSE)
NoClient ==
    [created |-> FALSE, session |-> "None", exit_stack |-> "None",
     connected |-> FALSE, cleanup_attempted |-> FALSE, res |-> "none",
     everConnected |-> FALSE, acloseCalls |-> 0]

\* mcp_client = RemoteMCPClient(); self.exit_stack = AsyncExitStack()
ClientStarted ==
    [NoClient EXCEPT !.created = TRUE, !.exit_stack = "set", !.res = "open"]

\* A client whose connection failed, after its _cleanup, when
\* connect_mcp_servers has dropped its only reference to it.
DroppedClient ==
    [NoClient EXCEPT !.created = TRUE, !.cleanup_attempted = TRUE,
                     !.res = "released", !.acloseCalls = 1]

\* connect_to_server_by_name reaching "return True"
ClientConnected(c) ==
    [c EXCEPT !.session = "set", !.connected = TRUE, !.everConnected = TRUE]

\* The guard of call_tool: it raises "Not connected to any server" unless the
\* client holds a session and is marked connected.
CallToolAllowed(c) == c.session # "None" /\ c.connected

\* _cleanup up to its await: TRUE when it goes on to await exit_stack.aclose().
CleanupAwaits(c) == ~c.cleanup_attempted /\ c.exit_stack # "None"

\* close() and _cleanup up to the await of aclose (or to the end of _cleanup
\* when there is nothing to await); o is what the transport's aclose will do.
CleanupBegin(c, o) ==
    IF CleanupAwaits(c)
    THEN [c EXCEPT !.connected = FALSE, !.cleanup_attempted = TRUE,
                   !.res = o, !.acloseCalls = @ + 1]
    ELSE [c EXCEPT !.connected = FALSE, !.cleanup_attempted = TRUE]

\* The rest of close() after _cleanup returned.
CloseFinish(c) == [c EXCEPT !.session = "None", !.exit_stack = "None"]

\* A client is Closed when close() ran to its end on it.
IsClosed(c) ==
    /\ ~c.connected
    /\ c.cleanup_attempted
    /\ c.session = "None"
    /\ c.exit_stack = "None"
    /\ c.res \in {"released", "failed"}

(***************************************************************************)
(* Research results.                                                       *)
(***************************************************************************)

\* The dictionary a research step returns.  results is the number of items,
\* mentions the terms their text contains, error the "error" entry ("none"
\* when the dictionary has no such entry).
Result(platform, keyword, n, mentions, error) ==
    [platform |-> platform, keyword |-> keyword, results |-> n,
     mentions |-> mentions, error |-> error]

\* _research_via_mcp's value None
NoneResult == [platform |-> "None"]

\* What the environment does with one tool invocation: the session raises,
\* the response cannot be processed, or it yields n items.
ToolOutcomes ==
    { [kind |-> "tool_error", n |-> 0, mentions |-> {}],
      [kind |-> "bad_response", n |-> 0, mentions |-> {}],
      [kind |-> "ok", n |-> 0, mentions |-> {}] }
    \cup { [kind |-> "ok", n |-> n, mentions |-> m] :
              n \in 1..MaxItems, m \in MentionSets }

\* RemoteMCPClient.call_tool followed by _process_mcp_response, inside the
\* try block of _research_via_mcp: the value of _research_via_mcp when the
\* platform has a client c and the environment answers o.
ResearchViaMcpCall(c, platform, keyword, o) ==
    IF ~CallToolAllowed(c)
    THEN Result(platform, keyword, 0, {}, "Not connected to any server")
    ELSE IF o.kind = "tool_error"
    \* call_tool prints the error and returns None, which
    \* _process_mcp_response turns into a result without items
    THEN Result(platform, keyword, 0, {}, "none")
    ELSE IF o.kind = "bad_response"
    THEN Result(platform, keyword, 0, {}, "processing error")
    ELSE Result(platform, keyword, o.n, o.mentions, "none")

\* _research_via_mcp
ResearchViaMcp(held, cl, platform, keyword, o) ==
    IF DictGet(held, platform) \in {"absent", "None"}
    THEN NoneResult
    ELSE ResearchViaMcpCall(cl[platform], platform, keyword, o)

\* research_platform: the MCP result when there is one without an error,
\* else the default result.
ResearchPlatform(held, cl, platform, keyword, o) ==
    LET mcp_result == ResearchViaMcp(held, cl, platform, keyword, o) IN
    IF mcp_result # NoneResult /\ mcp_result.error = "none"
    THEN mcp_result
    ELSE Result(platform, keyword, 0, {}, "none")

\* Whether the invocation reaches the session (self.session.call_tool).
ReachesSession(held, cl, platform) ==
    /\ DictGet(held, platform) = "client"
    /\ CallToolAllowed(cl[platform])

\* What happened in one research step, for the record.
AttemptKind(held, cl, platform, o) ==
    IF DictGet(held, platform) \in {"absent", "None"} THEN "unavailable"
    ELSE IF ~CallToolAllowed(cl[platform]) THEN "not_connected"
    ELSE o.kind

(***************************************************************************)
(* The initial state: AITrendResearcher() constructed, main() about to     *)
(* await run_daily_research().                                             *)
(***************************************************************************)

NoIter == [pos |-> 0, used |-> 0, cur |-> "none"]

PipeInit(st) ==
    /\ pc = "connect"
    /\ ci = 1
    /\ client = [s \in ServerSet |-> NoClient]
    /\ mcp_clients = << >>
    /\ iter = [main |-> NoIter, sig |-> NoIter]
    /\ closer = "run"
    /\ active_keywords = << >>
    /\ ki = 1
    /\ pi = 1
    /\ all_research_data = << >>
    /\ attempts = << >>
    /\ new_keywords = << >>
    /\ masterFile = st.master
    /\ activeFile = st.active
    /\ historyFile = << >>
    /\ reportFile = NoReport
    /\ notionCalls = 0
    /\ toolCalls = [s \in ServerSet |-> 0]
    /\ exc = "none"
    /\ outcome = "running"
    /\ proc = [state |-> "running", status |-> 0]
    /\ sig = "none"

(***************************************************************************)
(* connect_mcp_servers                                                     *)
(***************************************************************************)

\* Control leaves the try block of run_daily_research, with exception e or
\* by "return" (e = "none"): the finally block starts to iterate over
\* self.mcp_clients.items().
EnterFinally(e) ==
    /\ exc' = e
    /\ pc' = "closeall"
    /\ closer' = "run"
    /\ iter' = [iter EXCEPT !.main = [pos |-> 1, used |-> Len(mcp_clients),
                                      cur |-> "none"]]

\* The loop of connect_mcp_servers reaches the next enabled server: a client
\* is created and connect_to_server_by_name awaits the transport.
ConnectStart ==
    /\ pc = "connect"
    /\ ci <= Len(Servers)
    /\ client' = [client EXCEPT ![Servers[ci]] = ClientStarted]
    /\ pc' = "connecting"
    /\ UNCHANGED << ci, mcp_clients, iter, closer, active_keywords, ki, pi,
                    all_research_data, attempts, new_keywords, masterFile,
                    activeFile, historyFile, reportFile, notionCalls,
                    toolCalls, exc, outcome, proc, sig >>
    /\ UNCHANGED otherVars

\* connect_to_server_by_name returns True and the client is stored.
ConnectOk ==
    /\ pc = "connecting"
    /\ client' = [client EXCEPT ![Servers[ci]] = ClientConnected(@)]
    /\ mcp_clients' = DictSet(mcp_clients, Servers[ci], "client")
    /\ ci' = ci + 1
    /\ pc' = "connect"
    /\ UNCHANGED << iter, closer, active_keywords, ki, pi, all_research_data,
                    attempts, new_keywords, masterFile, activeFile,
                    historyFile, reportFile, notionCalls, toolCalls, exc,
                    outcome, proc, sig >>
    /\ UNCHANGED otherVars

\* An await of connect_to_server_by_name raises (before or after the session
\* was assigned): _connected = False and _cleanup awaits the exit stack.
ConnectFail ==
    /\ pc = "connecting"
    /\ \E sess \in {"None", "set"}, o \in {"closing", "hung"} :
          client' = [client EXCEPT ![Servers[ci]] =
                        CleanupBegin([@ EXCEPT !.session = sess], o)]
    /\ pc' = "connect_cleanup"
    /\ UNCHANGED << ci, mcp_clients, iter, closer, active_keywords, ki, pi,
                    all_research_data, attempts, new_keywords, masterFile,
                    activeFile, historyFile, reportFile, notionCalls,
                    toolCalls, exc, outcome, proc, sig >>
    /\ UNCHANGED otherVars

\* A connect_mcp_servers that lets the failure of a connection leave it.
ConnectFailureRaisesOut ==
    /\ pc = "connect_cleanup"
    /\ client[Servers[ci]].res = "closing"
    /\ client' = [client EXCEPT ![Servers[ci]] = DroppedClient]
    /\ EnterFinally("ConnectError")
    /\ UNCHANGED << ci, mcp_clients, active_keywords, ki, pi,
                    all_research_data, attempts, new_keywords, masterFile,
                    activeFile, historyFile, reportFile, notionCalls,
                    toolCalls, outcome, proc, sig >>
    /\ UNCHANGED otherVars

\* The aclose awaited by _cleanup ends (an exception of it is suppressed),
\* connect_to_server_by_name returns False and None is stored: nothing
\* refers to the client any more.
ConnectCleanupDone ==
    /\ pc = "connect_cleanup"
    /\ client[Servers[ci]].res = "closing"
    /\ client' = [client EXCEPT ![Servers[ci]] = DroppedClient]
    /\ mcp_clients' = DictSet(mcp_clients, Servers[ci], "None")
    /\ ci' = ci + 1
    /\ pc' = "connect"
    /\ UNCHANGED << iter, closer, active_keywords, ki, pi, all_research_data,
                    attempts, new_keywords, masterFile, activeFile,
                    historyFile, reportFile, notionCalls, toolCalls, exc,
                    outcome, proc, sig >>
    /\ UNCHANGED otherVars

\* The loop is over.
ConnectDone ==
    /\ pc = "connect"
    /\ ci > Len(Servers)
    /\ pc' = "load"
    /\ UNCHANGED << ci, client, mcp_clients, iter, closer, active_keywords,
                    ki, pi, all_research_data, attempts, new_keywords,
                    masterFile, activeFile, historyFile, reportFile,
                    notionCalls, toolCalls, exc, outcome, proc, sig >>
    /\ UNCHANGED otherVars

(***************************************************************************)
(* KeywordManager                                                          *)
(***************************************************************************)

Terms(master) == {master[i].term : i \in 1..Len(master)}

\* A sort that puts a record ahead of the earlier records of equal score.
InsertBeforeEqualScores(sorted, r) ==
    LET ahead == Cardinality({i \in 1..Len(sorted) : sorted[i].score > r.score})
    IN  SubSeq(sorted, 1, ahead) \o << r >> \o SubSeq(sorted, ahead + 1, Len(sorted))

\* sorted(master.items(), key=score, reverse=True): a stable sort, so records
\* of equal score keep the registry's order.  InsertByScore puts r behind
\* every record whose score is at least r's.
InsertByScore(sorted, r) ==
    LET ahead == Cardinality({i \in 1..Len(sorted) : sorted[i].score >= r.score})
    IN  SubSeq(sorted, 1, ahead) \o << r >> \o SubSeq(sorted, ahead + 1, Len(sorted))

RECURSIVE SortByScore(_)
SortByScore(master) ==
    IF master = << >> THEN << >>
    ELSE InsertByScore(SortByScore(SubSeq(master, 1, Len(master) - 1)),
                       master[Len(master)])

\* get_top_keywords(limit), for limit >= 0
GetTopKeywords(master, limit) ==
    LET sorted == SortByScore(master)
        n == Min(limit, Len(sorted))
    IN  [i \in 1..n |-> sorted[i].term]

\* An add_new_keyword that stores the record whether the term is present
\* or not.
AddNewKeywordOverwrites(master, keyword, score, source, discovered_from) ==
    LET r == KeywordRecord(keyword, score, "null", source, Today,
                           IF discovered_from = "None" THEN "absent"
                           ELSE discovered_from)
    IN  IF keyword \in Terms(master)
        THEN [ret |-> TRUE,
              master |-> [i \in 1..Len(master) |->
                            IF master[i].term = keyword THEN r ELSE master[i]]]
        ELSE [ret |-> TRUE, master |-> Append(master, r)]

\* add_new_keyword(keyword, score, source, discovered_from): what it returns
\* and the master it leaves.  The record has a "discovered_from" entry only
\* when the argument is given.
AddNewKeywordCall(master, keyword, score, source, discovered_from) ==
    IF keyword \in Terms(master)
    THEN [ret |-> FALSE, master |-> master]
    ELSE [ret |-> TRUE,
          master |-> Append(master,
                            KeywordRecord(keyword, score, "null", source, Today,
                                          IF discovered_from = "None"
                                          THEN "absent"
                                          ELSE discovered_from))]

\* add_new_keyword(keyword, score, "discovered", "daily_research"): the
\* master it leaves.
AddNewKeyword(master, term, score) ==
    AddNewKeywordCall(master, term, score, "discovered", "daily_research").master

\* update_keyword_score(keyword, new_score)
UpdateKeywordScore(master, keyword, new_score) ==
    IF keyword \in Terms(master)
    THEN [ret |-> TRUE,
          master |-> [i \in 1..Len(master) |->
                        IF master[i].term = keyword
                        THEN [master[i] EXCEPT !.score = new_score]
                        ELSE master[i]]]
    ELSE [ret |-> FALSE, master |-> master]

\* refresh_active_keywords(limit): the list it saves and returns.
RefreshActiveKeywords(master, limit) == GetTopKeywords(master, limit)

\* load_active_keywords
LoadActiveKeywords(file) == file

\* A mark_keywords_used that also registers the listed terms the master
\* file does not hold.
RECURSIVE MarkKeywordsUsedInserts(_, _)
MarkKeywordsUsedInserts(master, keywords) ==
    IF keywords = << >> THEN master
    ELSE LET keyword == Head(keywords)
             marked == [i \in 1..Len(master) |->
                          IF master[i].term = keyword
                          THEN [master[i] EXCEPT !.last_used = Today]
                          ELSE master[i]]
         IN  MarkKeywordsUsedInserts(
                 IF keyword \in Terms(master) THEN marked
                 ELSE Append(master, KeywordRecord(keyword, 50, Today,
                                                   "discovered", Today,
                                                   "absent")),
                 Tail(keywords))

\* A mark_keywords_used that saves the stamped records only, dropping the
\* rest of the registry.
MarkKeywordsUsedDropsOthers(master, keywords) ==
    LET Used(r) == r.term \in Range(keywords)
        kept == SelectSeq(master, Used)
    IN  [i \in 1..Len(kept) |-> [kept[i] EXCEPT !.last_used = Today]]

\* mark_keywords_used(keywords): the master it leaves.
MarkKeywordsUsed(master, keywords) ==
    [i \in 1..Len(master) |->
        IF master[i].term \in Range(keywords)
        THEN [master[i] EXCEPT !.last_used = Today]
        ELSE master[i]]

\* record_execution: history[today] = {...}
RecordExecution(history, keywords, status, found) ==
    DictSet(history, Today,
            [keywords |-> keywords, status |-> status,
             new_keywords_found |-> found])

(***************************************************************************)
(* Scoring and report assembly of AITrendResearcher.                       *)
(***************************************************************************)

\* keyword.lower() in str(data).lower(): the serialized result holds the
\* researched keyword and the text of its items.
Mentions(data, keyword) == keyword = data.keyword \/ keyword \in data.mentions

MentionCount(keyword, research_data) ==
    Cardinality({i \in 1..Len(research_data) :
                    Mentions(research_data[i], keyword)})

KeywordScore(keyword, research_data) ==
    Min(100, 50 + MentionCount(keyword, research_data) * 5)

\* The keys of the dictionary score_keywords builds, in insertion order: each
\* keyword once, at its first occurrence.
RECURSIVE DictKeys(_)
DictKeys(keywords) ==
    IF keywords = << >> THEN << >>
    ELSE LET rest == DictKeys(SubSeq(keywords, 1, Len(keywords) - 1))
             k == keywords[Len(keywords)]
         IN  IF k \in Range(rest) THEN rest ELSE Append(rest, k)

\* The loop over keyword_scores.items() calling add_new_keyword, for the
\* first n keys.
RECURSIVE AddScored(_, _, _, _)
AddScored(master, keys, research_data, n) ==
    IF n = 0 THEN master
    ELSE AddNewKeyword(AddScored(master, keys, research_data, n - 1),
                       keys[n], KeywordScore(keys[n], research_data))

RECURSIVE TotalResults(_)
TotalResults(research_data) ==
    IF research_data = << >> THEN 0
    ELSE research_data[1].results + TotalResults(Tail(research_data))

\* The report dictionary of generate_report (written: the file holds all of
\* it).
BuildReport(research_data, keywords) ==
    [written |-> "complete",
     date |-> Today,
     summary |->
        [platforms_searched |->
            Cardinality({research_data[i].platform : i \in 1..Len(research_data)}),
         keywords_used |->
            {research_data[i].keyword : i \in 1..Len(research_data)},
         new_keywords_found |-> Len(keywords),
         total_results |-> TotalResults(research_data)],
     detailed_results |-> research_data,
     new_keywords |-> keywords,
     recommendations |->
        IF keywords # << >> THEN << [consider |-> Len(keywords)] >> ELSE << >>]

(***************************************************************************)
(* run_daily_research after connect_mcp_servers                            *)
(***************************************************************************)

\* load_active_keywords, and refresh_active_keywords when the list is empty.
\* Reading or writing a store file may raise.  save_active_keywords opens
\* keywords/active.json for writing without creating the directory: open()
\* raises FileNotFoundError when keywords/ does not exist.
LoadActive ==
    /\ pc = "load"
    /\ \/ /\ activeFile # << >>
          /\ active_keywords' = activeFile
          /\ pc' = "research"
          /\ UNCHANGED << activeFile, exc, closer, iter >>
       \/ /\ activeFile = << >>
          /\ keywordsDir
          /\ active_keywords' = GetTopKeywords(masterFile, RefreshLimit)
          /\ activeFile' = active_keywords'
          /\ pc' = "research"
          /\ UNCHANGED << exc, closer, iter >>
       \/ /\ activeFile = << >>
          /\ ~keywordsDir
          /\ EnterFinally("FileNotFoundError")
          /\ UNCHANGED << active_keywords, activeFile >>
       \/ /\ EnterFinally("LoadError")
          /\ UNCHANGED << active_keywords, activeFile >>
    /\ ki' = 1
    /\ pi' = 1
    /\ UNCHANGED << ci, client, mcp_clients, all_research_data, attempts,
                    new_keywords, masterFile, historyFile, reportFile,
                    notionCalls, toolCalls, outcome, proc, sig >>
    /\ UNCHANGED otherVars

\* A loop that keeps only the results that carry items.
AccumulateDropsEmpty(research_data, research_result) ==
    IF research_result.results = 0 THEN research_data
    ELSE Append(research_data, research_result)

\* all_research_data.append(research_result)
Accumulate(research_data, research_result) ==
    Append(research_data, research_result)

\* One pass of the inner loop: research_platform(platform, keyword) and the
\* append of its result.  (research_platform and _research_via_mcp catch
\* every exception of the invocation, so the loop's own handler never runs.)
ResearchPair ==
    /\ pc = "research"
    /\ ki <= Len(active_keywords)
    /\ LET keyword == active_keywords[ki]
           platform == Platforms[pi]
       IN  \E o \in ToolOutcomes :
              /\ all_research_data' =
                    Accumulate(all_research_data,
                               ResearchPlatform(mcp_clients, client, platform,
                                                keyword, o))
              /\ attempts' =
                    Append(attempts,
                           [platform |-> platform, keyword |-> keyword,
                            kind |-> AttemptKind(mcp_clients, client,
                                                 platform, o)])
              /\ toolCalls' =
                    IF ReachesSession(mcp_clients, client, platform)
                    THEN [toolCalls EXCEPT ![platform] = @ + 1]
                    ELSE toolCalls
    /\ IF pi < Len(Platforms)
       THEN pi' = pi + 1 /\ ki' = ki
       ELSE pi' = 1 /\ ki' = ki + 1
    /\ UNCHANGED << pc, ci, client, mcp_clients, iter, closer,
                    active_keywords, new_keywords, masterFile, activeFile,
                    historyFile, reportFile, notionCalls, exc, outcome,
                    proc, sig >>
    /\ UNCHANGED otherVars

\* The loops are over.
ResearchDone ==
    /\ pc = "research"
    /\ ki > Len(active_keywords)
    /\ pc' = "extract"
    /\ UNCHANGED << ci, client, mcp_clients, iter, closer, active_keywords,
                    ki, pi, all_research_data, attempts, new_keywords,
                    masterFile, activeFile, historyFile, reportFile,
                    notionCalls, toolCalls, exc, outcome, proc, sig >>
    /\ UNCHANGED otherVars

\* Whether extract_new_keywords finds content: some result has items.
HasContent(research_data) ==
    \E i \in 1..Len(research_data) : research_data[i].results > 0

\* extract_new_keywords: without content it returns [] at once; with content
\* the digest is built outside the try block (an item whose description is
\* not text raises there), and the completion call and the parse are inside
\* it (an error gives []).
ExtractNewKeywords ==
    /\ pc = "extract"
    /\ \/ /\ ~HasContent(all_research_data)
          /\ new_keywords' = << >>
          /\ pc' = "score"
          /\ UNCHANGED << exc, closer, iter >>
       \/ /\ HasContent(all_research_data)
          /\ \E kws \in ExtractedLists : new_keywords' = kws
          /\ pc' = "score"
          /\ UNCHANGED << exc, closer, iter >>
       \/ /\ HasContent(all_research_data)
          /\ EnterFinally("ExtractError")
          /\ UNCHANGED new_keywords
    /\ UNCHANGED << ci, client, mcp_clients, active_keywords, ki, pi,
                    all_research_data, attempts, masterFile, activeFile,
                    historyFile, reportFile, notionCalls, toolCalls, outcome,
                    proc, sig >>
    /\ UNCHANGED otherVars

\* score_keywords and the add_new_keyword loop.  Each insertion saves the
\* master file, which may raise after n keywords were handled.
ScoreAndAdd ==
    /\ pc = "score"
    /\ LET keys == IF new_keywords = << >> THEN << >> ELSE DictKeys(new_keywords)
       IN  \/ /\ masterFile' = AddScored(masterFile, keys, all_research_data,
                                         Len(keys))
              /\ pc' = "mark"
              /\ UNCHANGED << exc, closer, iter >>
           \/ /\ \E n \in 0..(Len(keys) - 1) :
                    /\ keys[n + 1] \notin
                          Terms(AddScored(masterFile, keys, all_research_data, n))
                    /\ masterFile' =
                          AddScored(masterFile, keys, all_research_data, n)
              /\ EnterFinally("MasterWriteError")
    /\ UNCHANGED << ci, client, mcp_clients, active_keywords, ki, pi,
                    all_research_data, attempts, new_keywords, activeFile,
                    historyFile, reportFile, notionCalls, toolCalls, outcome,
                    proc, sig >>
    /\ UNCHANGED otherVars

\* A mark_keywords_used whose failure is recorded in the execution history
\* with the status "failed".
MarkUsedRecordsFailure ==
    /\ pc = "mark"
    /\ \/ /\ masterFile' = MarkKeywordsUsed(masterFile, active_keywords)
          /\ pc' = "report"
          /\ UNCHANGED << exc, closer, iter, historyFile >>
       \/ /\ EnterFinally("MasterWriteError")
          /\ historyFile' = RecordExecution(historyFile, active_keywords,
                                            "failed", 0)
          /\ UNCHANGED masterFile
    /\ UNCHANGED << ci, client, mcp_clients, active_keywords, ki, pi,
                    all_research_data, attempts, new_keywords, activeFile,
                    reportFile, notionCalls, toolCalls, outcome,
                    proc, sig >>
    /\ UNCHANGED otherVars

\* mark_keywords_used(active_keywords)
MarkUsed ==
    /\ pc = "mark"
    /\ \/ /\ masterFile' = MarkKeywordsUsed(masterFile, active_keywords)
          /\ pc' = "report"
          /\ UNCHANGED << exc, closer, iter >>
       \/ /\ EnterFinally("MasterWriteError")
          /\ UNCHANGED masterFile
    /\ UNCHANGED << ci, client, mcp_clients, active_keywords, ki, pi,
                    all_research_data, attempts, new_keywords, activeFile,
                    historyFile, reportFile, notionCalls, toolCalls, outcome,
                    proc, sig >>
    /\ UNCHANGED otherVars

\* A generate_report that logs a failed write and goes on.
WriteReportSwallowsFailure ==
    /\ pc = "report"
    /\ \/ reportFile' = BuildReport(all_research_data, new_keywords)
       \/ reportFile' \in {reportFile, PartialReport}
    /\ pc' = "notion"
    /\ UNCHANGED << ci, client, mcp_clients, iter, closer, active_keywords,
                    ki, pi, all_research_data, attempts, new_keywords,
                    masterFile, activeFile, historyFile, notionCalls,
                    toolCalls, exc, outcome, proc, sig >>
    /\ UNCHANGED otherVars

\* generate_report up to the end of the "with open(...)" block: the report
\* file is written, or the write raises (leaving the file as it was, or cut).
WriteReport ==
    /\ pc = "report"
    /\ \/ /\ reportFile' = BuildReport(all_research_data, new_keywords)
          /\ pc' = "notion"
          /\ UNCHANGED << exc, closer, iter >>
       \/ /\ reportFile' \in {reportFile, PartialReport}
          /\ EnterFinally("ReportWriteError")
    /\ UNCHANGED << ci, client, mcp_clients, active_keywords, ki, pi,
                    all_research_data, attempts, new_keywords, masterFile,
                    activeFile, historyFile, notionCalls, toolCalls, outcome,
                    proc, sig >>
    /\ UNCHANGED otherVars

\* create_notion_report: skipped without a notion client or a parent page
\* id; else the blocks are built and create-page is called inside a try
\* block that swallows every error.
CreateNotionReport ==
    /\ pc = "notion"
    /\ \E parentSet \in BOOLEAN, blocksOk \in BOOLEAN :
          IF /\ DictGet(mcp_clients, "notion") = "client"
             /\ parentSet
             /\ blocksOk
             /\ CallToolAllowed(client["notion"])
          THEN /\ notionCalls' = notionCalls + 1
               /\ toolCalls' = [toolCalls EXCEPT !["notion"] = @ + 1]
          ELSE UNCHANGED << notionCalls, toolCalls >>
    /\ pc' = "record"
    /\ UNCHANGED << ci, client, mcp_clients, iter, closer, active_keywords,
                    ki, pi, all_research_data, attempts, new_keywords,
                    masterFile, activeFile, historyFile, reportFile, exc,
                    outcome, proc, sig >>
    /\ UNCHANGED otherVars

\* A record_execution given the number of keywords that were scored (each
\* keyword once) instead of len(new_keywords).
RecordAndReturnCountsKeys ==
    /\ pc = "record"
    /\ \/ /\ historyFile' = RecordExecution(historyFile, active_keywords,
                                            "completed",
                                            Len(DictKeys(new_keywords)))
          /\ EnterFinally("none")
       \/ /\ EnterFinally("HistoryWriteError")
          /\ UNCHANGED historyFile
    /\ UNCHANGED << ci, client, mcp_clients, active_keywords, ki, pi,
                    all_research_data, attempts, new_keywords, masterFile,
                    activeFile, reportFile, notionCalls, toolCalls, outcome,
                    proc, sig >>
    /\ UNCHANGED otherVars

\* record_execution(active_keywords, "completed", len(new_keywords)), then
\* "return report_file": the finally block runs.
RecordAndReturn ==
    /\ pc = "record"
    /\ \/ /\ historyFile' = RecordExecution(historyFile, active_keywords,
                                            "completed", Len(new_keywords))
          /\ EnterFinally("none")
       \/ /\ EnterFinally("HistoryWriteError")
          /\ UNCHANGED historyFile
    /\ UNCHANGED << ci, client, mcp_clients, active_keywords, ki, pi,
                    all_research_data, attempts, new_keywords, masterFile,
                    activeFile, reportFile, notionCalls, toolCalls, outcome,
                    proc, sig >>
    /\ UNCHANGED otherVars

(***************************************************************************)
(* _close_all_mcp_clients                                                  *)
(*                                                                         *)
(* "for platform, client in self.mcp_clients.items()" holds a dictionary   *)
(* iterator: each step of it raises RuntimeError when the dictionary's     *)
(* size is no longer the one it started with.                              *)
(***************************************************************************)

\* A loop that ends at the first entry without a client instead of
\* skipping it.
CloseAllKindStopsAtNone(t) ==
    LET it == iter[t] IN
    IF Len(mcp_clients) # it.used THEN "runtime_error"
    ELSE IF it.pos > Len(mcp_clients) THEN "finished"
    ELSE IF mcp_clients[it.pos].val = "None" THEN "finished"
    ELSE IF CleanupAwaits(client[mcp_clients[it.pos].key]) THEN "await"
    ELSE "closed_now"

\* What the next step of task t's loop meets.
CloseAllKind(t) ==
    LET it == iter[t] IN
    IF Len(mcp_clients) # it.used THEN "runtime_error"
    ELSE IF it.pos > Len(mcp_clients) THEN "finished"
    ELSE IF mcp_clients[it.pos].val = "None" THEN "skip"
    ELSE IF CleanupAwaits(client[mcp_clients[it.pos].key]) THEN "await"
    ELSE "closed_now"

\* The loop's variables after a step of task t that stays in the loop: an
\* entry without a client is skipped; a client whose cleanup was attempted
\* before is closed without an await; else close() awaits aclose, whose
\* course o the transport decides.
CloseAllAdvance(t, o) ==
    LET it == iter[t]
        key == mcp_clients[it.pos].key
        kind == CloseAllKind(t)
    IN  /\ kind \in {"skip", "closed_now", "await"}
        /\ client' =
              IF kind = "skip" THEN client
              ELSE IF kind = "closed_now"
              THEN [client EXCEPT ![key] = CloseFinish(CleanupBegin(@, @.res))]
              ELSE [client EXCEPT ![key] = CleanupBegin(@, o)]
        /\ iter' =
              IF kind = "await"
              THEN [iter EXCEPT ![t].cur = key]
              ELSE [iter EXCEPT ![t].pos = @ + 1]

\* The aclose task t awaits returns or raises (suppressed by _cleanup), and
\* close() runs to its end.
CloseAwaitEnds(t, r) ==
    LET key == iter[t].cur IN
    /\ client[key].res = "closing"
    /\ client' = [client EXCEPT ![key] = CloseFinish([@ EXCEPT !.res = r])]
    /\ iter' = [iter EXCEPT ![t].pos = @ + 1, ![t].cur = "none"]

\* The main flow's close-all is over, by its end or by an exception e.  The
\* one in run_daily_research's finally lets control leave the function (its
\* locals are gone); the one in main's finally (whose exceptions are
\* swallowed) ends main.
MainCloseAllOver(e) ==
    IF closer = "run"
    THEN /\ exc' = IF e # "none" THEN e ELSE exc
         /\ outcome' = IF exc' = "none" THEN "returned" ELSE "raised"
         /\ pc' = "main_finally"
         /\ active_keywords' = << >>
         /\ all_research_data' = << >>
         /\ attempts' = << >>
         /\ new_keywords' = << >>
    ELSE /\ pc' = "exiting"
         /\ UNCHANGED << exc, outcome, active_keywords, all_research_data,
                         attempts, new_keywords >>

\* A step of the main flow's loop.
CloseAllNext ==
    /\ pc = "closeall"
    /\ LET kind == CloseAllKind("main") IN
       \/ /\ kind = "runtime_error"
          /\ MainCloseAllOver("RuntimeError")
          /\ UNCHANGED << client, mcp_clients, iter >>
       \/ /\ kind = "finished"
          /\ mcp_clients' = << >>
          /\ MainCloseAllOver("none")
          /\ UNCHANGED << client, iter >>
       \/ /\ \E o \in {"closing", "hung"} : CloseAllAdvance("main", o)
          /\ pc' = IF kind = "await" THEN "close_wait" ELSE "closeall"
          /\ UNCHANGED << mcp_clients, exc, outcome, active_keywords,
                          all_research_data, attempts, new_keywords >>
    /\ UNCHANGED << ci, closer, ki, pi, masterFile, activeFile, historyFile,
                    reportFile, notionCalls, toolCalls, proc, sig >>
    /\ UNCHANGED otherVars

\* The aclose the main flow awaits ends.
CloseWaitDone ==
    /\ pc = "close_wait"
    /\ \E r \in {"released", "failed"} : CloseAwaitEnds("main", r)
    /\ pc' = "closeall"
    /\ UNCHANGED << ci, mcp_clients, closer, active_keywords, ki, pi,
                    all_research_data, attempts, new_keywords, masterFile,
                    activeFile, historyFile, reportFile, notionCalls,
                    toolCalls, exc, outcome, proc, sig >>
    /\ UNCHANGED otherVars

(***************************************************************************)
(* main                                                                    *)
(***************************************************************************)

\* main's finally block: _close_all_mcp_clients once more.
MainFinally ==
    /\ pc = "main_finally"
    /\ closer' = "main"
    /\ iter' = [iter EXCEPT !.main = [pos |-> 1, used |-> Len(mcp_clients),
                                      cur |-> "none"]]
    /\ pc' = "closeall"
    /\ UNCHANGED << ci, client, mcp_clients, active_keywords, ki, pi,
                    all_research_data, attempts, new_keywords, masterFile,
                    activeFile, historyFile, reportFile, notionCalls,
                    toolCalls, exc, outcome, proc, sig >>
    /\ UNCHANGED otherVars

\* main is over and no other task is left: asyncio.run returns, or lets the
\* exception main re-raised end the process.
ProcExit ==
    /\ pc = "exiting"
    /\ sig \in {"none", "cancelled"}
    /\ proc' = [state |-> "exited",
                status |-> IF outcome = "returned" THEN 0 ELSE 1]
    /\ pc' = "done"
    /\ UNCHANGED << ci, client, mcp_clients, iter, closer, active_keywords,
                    ki, pi, all_research_data, attempts, new_keywords,
                    masterFile, activeFile, historyFile, reportFile,
                    notionCalls, toolCalls, exc, outcome, sig >>
    /\ UNCHANGED otherVars

(***************************************************************************)
(* The signal handler of main() and its task force_cleanup_and_exit.       *)
(*                                                                         *)
(* Tasks of one event loop switch at awaits only.  The handler task runs   *)
(* when the main flow is suspended at an await, and runs up to its own     *)
(* next await (of an aclose) or up to os._exit(1).                         *)
(***************************************************************************)

\* The main flow is suspended at an await: of a transport, of an aclose, or
\* of a tool invocation.
MainAwaits ==
    \/ pc \in {"connecting", "connect_cleanup", "close_wait"}
    \/ /\ pc = "research"
       /\ ki <= Len(active_keywords)
       /\ ReachesSession(mcp_clients, client, Platforms[pi])
    \/ /\ pc = "notion"
       /\ DictGet(mcp_clients, "notion") = "client"
       /\ CallToolAllowed(client["notion"])

\* _close_all_mcp_clients run by the handler task from position pos of its
\* iterator up to the next await: entries without a client are skipped and
\* clients whose cleanup was attempted before are closed without an await.
\* kind is what stops the run: the await of an aclose, the end of the loop,
\* or the RuntimeError of the iterator.
RECURSIVE SigRun(_, _, _)
SigRun(cl, pos, used) ==
    IF Len(mcp_clients) # used
    THEN [kind |-> "runtime_error", client |-> cl, pos |-> pos]
    ELSE IF pos > Len(mcp_clients)
    THEN [kind |-> "finished", client |-> cl, pos |-> pos]
    ELSE IF mcp_clients[pos].val = "None"
    THEN SigRun(cl, pos + 1, used)
    ELSE LET key == mcp_clients[pos].key IN
         IF CleanupAwaits(cl[key])
         THEN [kind |-> "await", client |-> cl, pos |-> pos]
         ELSE SigRun([cl EXCEPT ![key] = CloseFinish(CleanupBegin(@, @.res))],
                     pos + 1, used)

\* The end of force_cleanup_and_exit: os._exit(1).
ForceExit ==
    /\ proc' = [state |-> "exited", status |-> 1]
    /\ pc' = "done"
    /\ sig' = "exited"
    /\ iter' = [iter EXCEPT !.sig = NoIter]

\* The handler task runs from position pos with the clients cl: it stops at
\* the await of an aclose, or the loop ends (by itself, then the map is
\* cleared, or by the RuntimeError, which is swallowed) and the process
\* exits.
SigTaskRuns(cl, pos, used) ==
    LET run == SigRun(cl, pos, used) IN
    IF run.kind = "await"
    THEN LET key == mcp_clients[run.pos].key IN
         /\ \E o \in {"closing", "hung"} :
               client' = [run.client EXCEPT ![key] = CleanupBegin(@, o)]
         /\ iter' = [iter EXCEPT !.sig = [pos |-> run.pos, used |-> used,
                                          cur |-> key]]
         /\ sig' = "close_wait"
         /\ UNCHANGED << mcp_clients, proc, pc >>
    ELSE /\ client' = run.client
         /\ mcp_clients' = IF run.kind = "finished" THEN << >> ELSE mcp_clients
         /\ ForceExit

\* SIGTERM or SIGINT is delivered during the cycle: the handler creates the
\* task, which starts at the main flow's await.
SignalDelivered ==
    /\ sig = "none"
    /\ MainAwaits
    /\ SigTaskRuns(client, 1, Len(mcp_clients))
    /\ UNCHANGED << ci, closer, active_keywords, ki, pi, all_research_data,
                    attempts, new_keywords, masterFile, activeFile,
                    historyFile, reportFile, notionCalls, toolCalls, exc,
                    outcome >>
    /\ UNCHANGED otherVars

\* The aclose the handler task awaits ends (an exception of it is
\* suppressed), close() runs to its end and the task goes on.
SigResume ==
    /\ sig = "close_wait"
    /\ MainAwaits
    /\ LET key == iter.sig.cur IN
          /\ client[key].res = "closing"
          /\ \E r \in {"released", "failed"} :
                SigTaskRuns([client EXCEPT ![key] =
                                CloseFinish([@ EXCEPT !.res = r])],
                            iter.sig.pos + 1, iter.sig.used)
    /\ UNCHANGED << ci, closer, active_keywords, ki, pi, all_research_data,
                    attempts, new_keywords, masterFile, activeFile,
                    historyFile, reportFile, notionCalls, toolCalls, exc,
                    outcome >>
    /\ UNCHANGED otherVars

\* main is over while the handler task awaits an aclose: asyncio.run
\* cancels the task.  The CancelledError is no Exception: it passes the
\* handlers of _cleanup, _close_all_mcp_clients and force_cleanup_and_exit,
\* and the task ends without os._exit ("cancelled"); or the aclose that
\* never completes does not react to it and asyncio.run waits ("stuck").
CancelSigTask ==
    /\ pc = "exiting"
    /\ sig = "close_wait"
    /\ sig' \in IF client[iter.sig.cur].res = "hung"
                THEN {"cancelled", "stuck"}
                ELSE {"cancelled"}
    /\ UNCHANGED << pc, ci, client, mcp_clients, iter, closer,
                    active_keywords, ki, pi, all_research_data, attempts,
                    new_keywords, masterFile, activeFile, historyFile,
                    reportFile, notionCalls, toolCalls, exc, outcome, proc >>
    /\ UNCHANGED otherVars

SigTask == SignalDelivered \/ SigResume \/ CancelSigTask

Connect == ConnectStart \/ ConnectOk \/ ConnectFail \/ ConnectCleanupDone \/ ConnectDone

Cycle ==
    \/ LoadActive
    \/ ResearchPair
    \/ ResearchDone
    \/ ExtractNewKeywords
    \/ ScoreAndAdd
    \/ MarkUsed
    \/ WriteReport
    \/ CreateNotionReport
    \/ RecordAndReturn

Shutdown == CloseAllNext \/ CloseWaitDone \/ MainFinally \/ ProcExit

(***************************************************************************)
(* mcp_client_manager.py: RemoteMCPClient.                                 *)
(*                                                                         *)
(* session, exit_stack, connected, cleanup_attempted and tools             *)
(* (_available_tools is filled) are the object's fields.  res is the state *)
(* of the transport the exit stack owns, as above, with "abandoned" for an *)
(* aclose given up on timeout.  phase is the object's place in the         *)
(* life cycle Disconnected -> Connecting -> Connected -> Closed, with      *)
(* ConnectFailed for a connection that did not succeed; acloseCalls        *)
(* counts the calls of exit_stack.aclose().                                *)
(***************************************************************************)

\* RemoteMCPClient.__init__
NewClient ==
    [session |-> "None", exit_stack |-> "None", connected |-> FALSE,
     cleanup_attempted |-> FALSE, tools |-> FALSE, res |-> "none",
     phase |-> "Disconnected", acloseCalls |-> 0]

\* connect_to_server_by_name up to its first await.
ConnectBegin(c) ==
    [c EXCEPT !.exit_stack = "set", !.res = "open", !.phase = "Connecting"]

\* connect_to_server_by_name reaching "return True".
ConnectSucceeds(c) ==
    [c EXCEPT !.session = "set", !.tools = TRUE, !.connected = TRUE,
              !.phase = "Connected"]

\* A guard that looks at the session only.
CallToolAllowedIgnoresConnected(c) == c.session # "None"

\* The guard of call_tool.
MgrCallToolAllowed(c) == c.session # "None" /\ c.connected

\* call_tool on a client in the given phase and with the given session
\* field: reached tells whether session.call_tool was invoked, result what
\* the caller gets ("NotConnected" for the exception of the guard); o is what the session does with the invocation.
CallTool(c, o) ==
    IF ~MgrCallToolAllowed(c)
    THEN [phase |-> c.phase, session |-> c.session, reached |-> FALSE,
          result |-> "NotConnected"]
    ELSE [phase |-> c.phase, session |-> c.session, reached |-> TRUE,
          result |-> IF o = "raises" THEN "None" ELSE "content"]

\* _cleanup up to its await: TRUE when it goes on to await
\* wait_for(self.exit_stack.aclose(), timeout=5.0).
MgrCleanupAwaits(c) == ~c.cleanup_attempted /\ c.exit_stack # "None"

\* _cleanup up to that await (or to its end when there is nothing to
\* await); o is what the transport's aclose will do.
MgrCleanupBegin(c, o) ==
    IF MgrCleanupAwaits(c)
    THEN [c EXCEPT !.cleanup_attempted = TRUE, !.res = o,
                   !.acloseCalls = @ + 1]
    ELSE [c EXCEPT !.cleanup_attempted = TRUE]

\* The rest of _cleanup: aclose returned ("released"), raised ("failed") or
\* was given up by wait_for after 5 seconds ("abandoned"); the two handlers
\* drop the exit stack.
MgrCleanupEnd(c, r) ==
    [c EXCEPT !.res = r,
              !.exit_stack = IF r = "released" THEN @ ELSE "None"]

\* The ways the awaited aclose of c can end.
CleanupEndings(c) ==
    IF c.res = "closing" THEN {"released", "failed"}
    ELSE IF c.res = "hung" THEN {"abandoned"}
    ELSE {}

\* The except branch of connect_to_server_by_name up to the await in
\* _cleanup; sess tells whether the session was assigned before the failure.
ConnectFails(c, sess, o) ==
    MgrCleanupBegin([c EXCEPT !.session = sess, !.connected = FALSE,
                              !.phase = "ConnectFailed"], o)

\* close() up to the await in _cleanup.
CloseBegin(c, o) ==
    MgrCleanupBegin([c EXCEPT !.connected = FALSE, !.phase = "Closed"], o)

\* The finally block of close().
MgrCloseFinish(c) == [c EXCEPT !.session = "None", !.exit_stack = "None"]

\* close() ran to its end on c.
MgrIsClosed(c) ==
    /\ ~c.connected
    /\ c.cleanup_attempted
    /\ c.session = "None"
    /\ c.exit_stack = "None"
    /\ c.res \in {"released", "failed", "abandoned"}

(***************************************************************************)
(* mcp_client_manager.py: MCPClientManager.                                *)
(***************************************************************************)

\* An entry of server_configs: has_name tells whether it has "server_name".
ServerEntry(platform, enabled, has_name) ==
    [platform |-> platform, enabled |-> enabled, has_name |-> has_name]

\* ServerConfig.get_server_configs(), abridged to two enabled entries and
\* the disabled one between them.
DefaultServerConfigs ==
    << ServerEntry("youtube", TRUE, TRUE),
       ServerEntry("twitter", FALSE, TRUE),
       ServerEntry("github", TRUE, TRUE) >>

\* The dictionaries MCPClientManager is constructed with: the default one,
\* and one whose last entry lacks "server_name".
ServerConfigChoices ==
    { DefaultServerConfigs,
      [DefaultServerConfigs EXCEPT ![3] = ServerEntry("github", TRUE, FALSE)] }

MgrPlatforms == {DefaultServerConfigs[i].platform : i \in 1..Len(DefaultServerConfigs)}

\* get_client: self.clients.get(platform), "client" standing for the
\* platform's client in objs.
GetClient(cl, platform) ==
    IF DictGet(cl, platform) = "absent" THEN "None" ELSE DictGet(cl, platform)

\* is_platform_available
IsPlatformAvailable(cl, platform) ==
    /\ DictGet(cl, platform) # "absent"
    /\ DictGet(cl, platform) # "None"

\* get_available_tools: TRUE when the list is the server's tools.
GetAvailableTools(cl, heap, platform) ==
    IF IsPlatformAvailable(cl, platform)
    THEN heap[platform].tools
    ELSE FALSE

\* The platforms whose client self.clients holds.
Held(cl) == {cl[i].key : i \in {j \in 1..Len(cl) : cl[j].val # "None"}}

\* No call_tool was made since the last manager operation.
NoCall ==
    [phase |-> "none", session |-> "None", reached |-> FALSE,
     result |-> "none"]

\* MCPClientManager.__init__
MgrInit(configs) ==
    /\ server_configs = configs
    /\ clients = << >>
    /\ objs = [p \in MgrPlatforms |-> NewClient]
    /\ replaced = {}
    /\ mpc = "idle"
    /\ mi = 1
    /\ miter = 0
    /\ connects = 0
    /\ op = "none"
    /\ before = [clients |-> << >>, objs |-> [p \in MgrPlatforms |-> NewClient]]
    /\ tried = [p \in MgrPlatforms |-> 0]
    /\ connectResult = [p \in MgrPlatforms |-> "none"]
    /\ escaped = FALSE
    /\ lastCall = NoCall

\* The caller calls connect_all_servers.
ConnectAllServers ==
    /\ mpc = "idle"
    /\ connects < MaxConnectAlls
    /\ connects' = connects + 1
    /\ op' = "connect_all"
    /\ before' = [clients |-> clients, objs |-> objs]
    /\ tried' = [p \in MgrPlatforms |-> 0]
    /\ connectResult' = [p \in MgrPlatforms |-> "none"]
    /\ mi' = 1
    /\ mpc' = "connect_loop"
    /\ lastCall' = NoCall
    /\ UNCHANGED << server_configs, replaced, clients, objs, miter, escaped >>
    /\ UNCHANGED notMgrVars

\* The loop meets an entry that is not enabled.
SkipDisabled ==
    /\ mpc = "connect_loop"
    /\ mi <= Len(server_configs)
    /\ ~server_configs[mi].enabled
    /\ mi' = mi + 1
    /\ UNCHANGED << server_configs, replaced, clients, objs, mpc, miter,
                    connects, op, before, tried, connectResult, escaped,
                    lastCall >>
    /\ UNCHANGED notMgrVars

\* A _connect_single_server without its try block: the KeyError ends
\* connect_all_servers.
ConnectSingleServerRaisesOut ==
    /\ mpc = "connect_loop"
    /\ mi <= Len(server_configs)
    /\ server_configs[mi].enabled
    /\ ~server_configs[mi].has_name
    /\ LET platform == server_configs[mi].platform IN
          /\ tried' = [tried EXCEPT ![platform] = @ + 1]
          /\ connectResult' = [connectResult EXCEPT ![platform] = "raised"]
    /\ escaped' = TRUE
    /\ mpc' = "idle"
    /\ UNCHANGED << server_configs, clients, objs, replaced, mi, miter,
                    connects, op, before, lastCall >>
    /\ UNCHANGED notMgrVars

\* _connect_single_server on an entry without "server_name": the KeyError
\* is caught and None is stored.
ConnectSingleServerRaises ==
    /\ mpc = "connect_loop"
    /\ mi <= Len(server_configs)
    /\ server_configs[mi].enabled
    /\ ~server_configs[mi].has_name
    /\ LET platform == server_configs[mi].platform IN
          /\ tried' = [tried EXCEPT ![platform] = @ + 1]
          /\ connectResult' = [connectResult EXCEPT ![platform] = "raised"]
          /\ clients' = DictSet(clients, platform, "None")
    /\ mi' = mi + 1
    /\ UNCHANGED << server_configs, replaced, objs, mpc, miter, connects, op,
                    before, escaped, lastCall >>
    /\ UNCHANGED notMgrVars

\* _connect_single_server creates a client, and connect_to_server_by_name
\* awaits the transport.
ConnectSingleServer ==
    /\ mpc = "connect_loop"
    /\ mi <= Len(server_configs)
    /\ server_configs[mi].enabled
    /\ server_configs[mi].has_name
    /\ LET platform == server_configs[mi].platform IN
          /\ objs' = [objs EXCEPT ![platform] = ConnectBegin(NewClient)]
          /\ replaced' = IF objs[platform].phase = "Connected"
                         THEN replaced \cup {platform}
                         ELSE replaced
          /\ tried' = [tried EXCEPT ![platform] = @ + 1]
    /\ mpc' = "connecting"
    /\ UNCHANGED << server_configs, clients, mi, miter, connects, op, before,
                    connectResult, escaped, lastCall >>
    /\ UNCHANGED notMgrVars

\* connect_to_server_by_name returns True: the client is stored.
ConnectSucceeded ==
    /\ mpc = "connecting"
    /\ LET platform == server_configs[mi].platform
       IN  /\ objs' = [objs EXCEPT ![platform] = ConnectSucceeds(@)]
           /\ clients' = DictSet(clients, platform, "client")
           /\ connectResult' = [connectResult EXCEPT ![platform] = "ok"]
    /\ mi' = mi + 1
    /\ mpc' = "connect_loop"
    /\ UNCHANGED << server_configs, replaced, miter, connects, op, before,
                    tried, escaped, lastCall >>
    /\ UNCHANGED notMgrVars

\* An await of connect_to_server_by_name raises: _cleanup awaits the exit
\* stack.
ConnectFailed ==
    /\ mpc = "connecting"
    /\ \E sess \in {"None", "set"}, o \in {"closing", "hung"} :
          objs' = [objs EXCEPT ![server_configs[mi].platform] =
                      ConnectFails(@, sess, o)]
    /\ mpc' = "connect_cleanup"
    /\ UNCHANGED << server_configs, replaced, clients, mi, miter, connects,
                    op, before, tried, connectResult, escaped, lastCall >>
    /\ UNCHANGED notMgrVars

\* _cleanup ends, connect_to_server_by_name returns False and None is
\* stored.
ConnectFailedStored ==
    /\ mpc = "connect_cleanup"
    /\ LET platform == server_configs[mi].platform
       IN  /\ \E r \in CleanupEndings(objs[platform]) :
                 objs' = [objs EXCEPT ![platform] = MgrCleanupEnd(@, r)]
           /\ clients' = DictSet(clients, platform, "None")
           /\ connectResult' = [connectResult EXCEPT ![platform] = "failed"]
    /\ mi' = mi + 1
    /\ mpc' = "connect_loop"
    /\ UNCHANGED << server_configs, replaced, miter, connects, op, before,
                    tried, escaped, lastCall >>
    /\ UNCHANGED notMgrVars

\* The loop of connect_all_servers is over.
ConnectAllReturns ==
    /\ mpc = "connect_loop"
    /\ mi > Len(server_configs)
    /\ mpc' = "idle"
    /\ UNCHANGED << server_configs, replaced, clients, objs, mi, miter,
                    connects, op, before, tried, connectResult, escaped,
                    lastCall >>
    /\ UNCHANGED notMgrVars

\* The caller calls call_tool on a client: one the manager created, or a
\* new RemoteMCPClient (what objs holds for a platform never tried).
CallToolOnClient ==
    /\ mpc = "idle"
    /\ \E c \in {objs[p] : p \in MgrPlatforms}, o \in {"returns", "raises"} :
          lastCall' = CallTool(c, o)
    /\ UNCHANGED << server_configs, replaced, clients, objs, mpc, mi, miter,
                    connects, op, before, tried, connectResult, escaped >>
    /\ UNCHANGED notMgrVars

\* The caller calls close_all_clients.
CloseAllClients ==
    /\ mpc = "idle"
    /\ op' = "close_all"
    /\ before' = [clients |-> clients, objs |-> objs]
    /\ miter' = 1
    /\ mpc' = "close_loop"
    /\ lastCall' = NoCall
    /\ UNCHANGED << server_configs, replaced, clients, objs, mi, connects,
                    tried, connectResult, escaped >>
    /\ UNCHANGED notMgrVars

\* The loop of close_all_clients meets an entry without a client.
CloseSkipsNone ==
    /\ mpc = "close_loop"
    /\ miter <= Len(clients)
    /\ clients[miter].val = "None"
    /\ miter' = miter + 1
    /\ UNCHANGED << server_configs, replaced, clients, objs, mpc, mi,
                    connects, op, before, tried, connectResult, escaped,
                    lastCall >>
    /\ UNCHANGED notMgrVars

\* The loop meets a client and awaits its close(): wait_for(_cleanup(), 10)
\* awaiting wait_for(aclose(), 5), or nothing when the cleanup was attempted
\* before.
CloseClient ==
    /\ mpc = "close_loop"
    /\ miter <= Len(clients)
    /\ clients[miter].val # "None"
    /\ LET id == clients[miter].key IN
       IF MgrCleanupAwaits(objs[id])
       THEN /\ \E o \in {"closing", "hung"} :
                  objs' = [objs EXCEPT ![id] = CloseBegin(@, o)]
            /\ mpc' = "close_wait"
            /\ UNCHANGED miter
       ELSE /\ objs' = [objs EXCEPT ![id] =
                           MgrCloseFinish(CloseBegin(@, @.res))]
            /\ miter' = miter + 1
            /\ UNCHANGED mpc
    /\ UNCHANGED << server_configs, replaced, clients, mi, connects, op,
                    before, tried, connectResult, escaped, lastCall >>
    /\ UNCHANGED notMgrVars

\* A close whose failure is not suppressed: when aclose raises, the
\* exception ends close_all_clients.
ClientClosedRaisesOut ==
    /\ mpc = "close_wait"
    /\ LET id == clients[miter].key IN
       \E r \in CleanupEndings(objs[id]) :
          /\ objs' = [objs EXCEPT ![id] = MgrCloseFinish(MgrCleanupEnd(@, r))]
          /\ IF r = "failed"
             THEN /\ escaped' = TRUE
                  /\ mpc' = "idle"
                  /\ UNCHANGED miter
             ELSE /\ miter' = miter + 1
                  /\ mpc' = "close_loop"
                  /\ UNCHANGED escaped
    /\ UNCHANGED << server_configs, replaced, clients, mi, connects, op,
                    before, tried, connectResult, lastCall >>
    /\ UNCHANGED notMgrVars

\* The awaited aclose ends, by itself or by the timeout, and close() runs to
\* its end.
ClientClosed ==
    /\ mpc = "close_wait"
    /\ LET id == clients[miter].key IN
       \E r \in CleanupEndings(objs[id]) :
          objs' = [objs EXCEPT ![id] = MgrCloseFinish(MgrCleanupEnd(@, r))]
    /\ miter' = miter + 1
    /\ mpc' = "close_loop"
    /\ UNCHANGED << server_configs, replaced, clients, mi, connects, op,
                    before, tried, connectResult, escaped, lastCall >>
    /\ UNCHANGED notMgrVars

\* The loop is over: self.clients.clear().
CloseAllReturns ==
    /\ mpc = "close_loop"
    /\ miter > Len(clients)
    /\ clients' = << >>
    /\ mpc' = "idle"
    /\ UNCHANGED << server_configs, replaced, objs, mi, miter, connects, op,
                    before, tried, connectResult, escaped, lastCall >>
    /\ UNCHANGED notMgrVars

MgrNext ==
    \/ ConnectAllServers
    \/ SkipDisabled
    \/ ConnectSingleServerRaises
    \/ ConnectSingleServer
    \/ ConnectSucceeded
    \/ ConnectFailed
    \/ ConnectFailedStored
    \/ ConnectAllReturns
    \/ CallToolOnClient
    \/ CloseAllClients
    \/ CloseSkipsNone
    \/ CloseClient
    \/ ClientClosed
    \/ CloseAllReturns

(***************************************************************************)
(* report_generator.py: ReportManager.generate_all_reports.                *)
(***************************************************************************)

\* A client that connected.
ConnectedClient == ConnectSucceeds(ConnectBegin(NewClient))

\* A client that connected and was closed.
ClosedClient ==
    MgrCloseFinish(MgrCleanupEnd(CloseBegin(ConnectedClient, "closing"),
                                 "released"))

\* The clients a ReportManager may be given: None, a client that is
\* connected, or one that was closed.
SinkClients == {"None", "connected", "closed"}

\* The client a name of SinkClients stands for.
SinkClient(name) == IF name = "connected" THEN ConnectedClient ELSE ClosedClient

\* ReportManager.__init__: a generator exists for a sink whose client is
\* not None.
ReportManagers ==
    [notion_client : SinkClients, notion_parent_id : {"None", "set"},
     supabase_client : SinkClients]

\* What a generator's call_tool ends in on the client of that name: the
\* response, None (the session raised; call_tool swallows it), or the
\* not-connected exception, which the generator's handler swallows.
SinkCallOutcomes(name) ==
    {CallTool(SinkClient(name), o).result : o \in {"returns", "raises"}}

\* What create_notion_report ends in: "skipped" without a parent page id;
\* else no blocks, blocks that fail both validations or the final one, an
\* exception while the blocks are built, or the outcome of the create-page
\* invocation.  It returns in every case.
NotionOutcomes(g) ==
    IF g.notion_parent_id = "None" THEN {"skipped"}
    ELSE {"no_blocks", "invalid_blocks", "error"}
         \cup SinkCallOutcomes(g.notion_client)

\* What create_supabase_report ends in: the outcome of the execute_sql
\* invocation, or an exception while the query is built.
SupabaseOutcomes(g) == {"error"} \cup SinkCallOutcomes(g.supabase_client)

ReportInit(g) ==
    /\ generators = g
    /\ rpc = "json"
    /\ jsonFile = "absent"
    /\ sinkLog = << >>
    /\ returned = "none"

\* json_generator.generate_report writes the file and returns its path.
JsonGenerateReport ==
    /\ rpc = "json"
    /\ jsonFile' = "complete"
    /\ sinkLog' = Append(sinkLog, [sink |-> "json", outcome |-> "written"])
    /\ rpc' = "notion"
    /\ UNCHANGED << generators, returned >>
    /\ UNCHANGED notReportVars

\* json_generator.generate_report raises (makedirs, open or dump): the
\* exception leaves generate_all_reports.
JsonGenerateReportRaises ==
    /\ rpc = "json"
    /\ jsonFile' \in {"absent", "partial"}
    /\ returned' = "raised"
    /\ rpc' = "done"
    /\ UNCHANGED << generators, sinkLog >>
    /\ UNCHANGED notReportVars

\* "if self.notion_generator" is false.
NoNotionGenerator ==
    /\ rpc = "notion"
    /\ generators.notion_client = "None"
    /\ rpc' = "supabase"
    /\ UNCHANGED << generators, jsonFile, sinkLog, returned >>
    /\ UNCHANGED notReportVars

\* A create_notion_report without its try block: what is not a created
\* page or a skip leaves generate_all_reports as an exception.
NotionGeneratorRaisesOut ==
    /\ rpc = "notion"
    /\ generators.notion_client # "None"
    /\ \E o \in NotionOutcomes(generators) :
          /\ sinkLog' = Append(sinkLog, [sink |-> "notion", outcome |-> o])
          /\ IF o \in {"error", "NotConnected"}
             THEN returned' = "raised" /\ rpc' = "done"
             ELSE rpc' = "supabase" /\ UNCHANGED returned
    /\ UNCHANGED << generators, jsonFile >>
    /\ UNCHANGED notReportVars

\* await self.notion_generator.create_notion_report(report_data)
NotionGeneratorRuns ==
    /\ rpc = "notion"
    /\ generators.notion_client # "None"
    /\ \E o \in NotionOutcomes(generators) :
          sinkLog' = Append(sinkLog, [sink |-> "notion", outcome |-> o])
    /\ rpc' = "supabase"
    /\ UNCHANGED << generators, jsonFile, returned >>
    /\ UNCHANGED notReportVars

\* "if self.supabase_generator" is false.
NoSupabaseGenerator ==
    /\ rpc = "supabase"
    /\ generators.supabase_client = "None"
    /\ rpc' = "return"
    /\ UNCHANGED << generators, jsonFile, sinkLog, returned >>
    /\ UNCHANGED notReportVars

\* await self.supabase_generator.create_supabase_report(report_data)
SupabaseGeneratorRuns ==
    /\ rpc = "supabase"
    /\ generators.supabase_client # "None"
    /\ \E o \in SupabaseOutcomes(generators) :
          sinkLog' = Append(sinkLog, [sink |-> "supabase", outcome |-> o])
    /\ rpc' = "return"
    /\ UNCHANGED << generators, jsonFile, returned >>
    /\ UNCHANGED notReportVars

\* return report_file
GenerateAllReportsReturns ==
    /\ rpc = "return"
    /\ returned' = "report_file"
    /\ rpc' = "done"
    /\ UNCHANGED << generators, jsonFile, sinkLog >>
    /\ UNCHANGED notReportVars

ReportNext ==
    \/ JsonGenerateReport
    \/ JsonGenerateReportRaises
    \/ NoNotionGenerator
    \/ NotionGeneratorRuns
    \/ NoSupabaseGenerator
    \/ SupabaseGeneratorRuns
    \/ GenerateAllReportsReturns

\* A ReportManager without generators for the remote sinks.
NoRemoteSinks ==
    [notion_client |-> "None", notion_parent_id |-> "None",
     supabase_client |-> "None"]

(***************************************************************************)
(* keyword_manager.py: KeywordManager under any sequence of calls.         *)
(***************************************************************************)

\* The terms, scores, limits and term lists a caller passes.
StoreTerms == {"ai", "llm", "rag"}

ScoreArgs == {0 - 5, 120}

\* The numbers of results that mention a new keyword in the cycle's
\* scoring step.
MentionCounts == {0, 12}

LimitArgs == 0..MaxLimit

MarkLists == { << "ai" >>, << "rag", "ai" >>, << "llm", "llm" >> }

\* The master files a caller may start with.
InitialMasters ==
    { << >>,
      << KwRecord("llm", 50, Yesterday, "seed"),
         KwRecord("ai", 80, "null", "seed") >>,
      << KwRecord("rag", 50, Yesterday, "seed"),
         KwRecord("llm", 80, "null", "seed"),
         KwRecord("ai", 50, Yesterday, "discovered") >> }

\* What kmCall holds: the operation, its arguments (keyword, keyword list,
\* score or limit), the master file before it, what it returned (ret for a
\* boolean, list for a list), and the number of calls made so far.
KmCall(o, keyword, keywords, num, master, ret, list) ==
    [op |-> o, term |-> keyword, terms |-> keywords, num |-> num,
     before |-> master, ret |-> ret, list |-> list,
     calls |-> kmCall.calls + 1]

NoKmCall ==
    [op |-> "none", term |-> "none", terms |-> << >>, num |-> 0,
     before |-> << >>, ret |-> FALSE, list |-> << >>, calls |-> 0]

StoreInit(master) ==
    /\ kmMaster = master
    /\ kmActive = << >>
    /\ kmCall = NoKmCall

\* add_new_keyword(keyword, score, "manual")
KmAddNewKeyword ==
    /\ kmCall.calls < MaxCalls
    /\ \E keyword \in StoreTerms, score \in ScoreArgs :
          LET r == AddNewKeywordCall(kmMaster, keyword, score, "manual",
                                     "None")
          IN  /\ kmMaster' = r.master
              /\ kmCall' = KmCall("add_new_keyword", keyword, << >>, score,
                                  kmMaster, r.ret, << >>)
    /\ UNCHANGED kmActive
    /\ UNCHANGED notStoreVars

\* update_keyword_score(keyword, new_score)
KmUpdateKeywordScore ==
    /\ kmCall.calls < MaxCalls
    /\ \E keyword \in StoreTerms, new_score \in ScoreArgs :
          LET r == UpdateKeywordScore(kmMaster, keyword, new_score)
          IN  /\ kmMaster' = r.master
              /\ kmCall' = KmCall("update_keyword_score", keyword, << >>,
                                  new_score, kmMaster, r.ret, << >>)
    /\ UNCHANGED kmActive
    /\ UNCHANGED notStoreVars

\* mark_keywords_used(keywords)
KmMarkKeywordsUsed ==
    /\ kmCall.calls < MaxCalls
    /\ \E keywords \in MarkLists :
          /\ kmMaster' = MarkKeywordsUsed(kmMaster, keywords)
          /\ kmCall' = KmCall("mark_keywords_used", "none", keywords, 0,
                              kmMaster, FALSE, << >>)
    /\ UNCHANGED kmActive
    /\ UNCHANGED notStoreVars

\* refresh_active_keywords(limit)
KmRefreshActiveKeywords ==
    /\ kmCall.calls < MaxCalls
    /\ \E limit \in LimitArgs :
          LET top_keywords == RefreshActiveKeywords(kmMaster, limit)
          IN  /\ kmActive' = top_keywords
              /\ kmCall' = KmCall("refresh_active_keywords", "none", << >>,
                                  limit, kmMaster, FALSE, top_keywords)
    /\ UNCHANGED kmMaster
    /\ UNCHANGED notStoreVars

\* The score-and-persist step of run_daily_research for one new keyword:
\* add_new_keyword with the score score_keywords gives for n mentions.
KmAddScoredKeyword ==
    /\ kmCall.calls < MaxCalls
    /\ \E keyword \in StoreTerms, n \in MentionCounts :
          LET score == Min(100, 50 + n * 5)
              r == AddNewKeywordCall(kmMaster, keyword, score, "discovered",
                                     "daily_research")
          IN  /\ kmMaster' = r.master
              /\ kmCall' = KmCall("score_and_add", keyword, << >>, score,
                                  kmMaster, r.ret, << >>)
    /\ UNCHANGED kmActive
    /\ UNCHANGED notStoreVars

StoreNext ==
    \/ KmAddNewKeyword
    \/ KmUpdateKeywordScore
    \/ KmMarkKeywordsUsed
    \/ KmRefreshActiveKeywords
    \/ KmAddScoredKeyword

\* No function of the adapters is being called.
FnIdle ==
    /\ fnArgs = [fn |-> "none"]
    /\ fnStep = "idle"
    /\ fnResult = [kind |-> "none"]

(***************************************************************************)
(* score_keywords of DataAnalyzer and AITrendResearcher (the two bodies    *)
(* are the same).                                                          *)
(*                                                                         *)
(* A text is a sequence of characters.  A research result is a dictionary  *)
(* with a platform, a keyword and the titles of its items.                 *)
(***************************************************************************)

\* str.lower() on one character of the alphabet used here
LowerChar(c) ==
    CASE c = "A" -> "a"
      [] c = "I" -> "i"
      [] c = "M" -> "m"
      [] OTHER -> c

\* str.lower()
Lower(text) == [i \in 1..Len(text) |-> LowerChar(text[i])]

\* ", ".join(texts)
RECURSIVE JoinTexts(_)
JoinTexts(texts) ==
    IF texts = << >> THEN << >>
    ELSE IF Len(texts) = 1 THEN texts[1]
    ELSE texts[1] \o << ",", " " >> \o JoinTexts(Tail(texts))

\* str(data): the dictionary's keys and values in insertion order, with the
\* punctuation of a dictionary's representation ("p", "k" and "r" stand for
\* the key names).
StrOfResult(data) ==
    << "{", "p", ":" >> \o data.platform
    \o << ",", " ", "k", ":" >> \o data.keyword
    \o << ",", " ", "r", ":", "[" >> \o JoinTexts(data.results) \o << "]", "}" >>

\* needle in text
Contains(text, needle) ==
    \E i \in 0..(Len(text) - Len(needle)) :
        SubSeq(text, i + 1, i + Len(needle)) = needle

\* A mention test that does not lower the serialized result.
MentionsKeywordAsWritten(data, keyword) ==
    Contains(StrOfResult(data), Lower(keyword))

\* keyword.lower() in str(data).lower()
MentionsKeyword(data, keyword) ==
    Contains(Lower(StrOfResult(data)), Lower(keyword))

\* mention_count = sum(1 for data in research_data if ...)
MentionCountIn(research_data, keyword) ==
    Cardinality({i \in 1..Len(research_data) :
                    MentionsKeyword(research_data[i], keyword)})

\* min(100, base_score + mention_count * 5)
MentionScore(mention_count) == Min(100, 50 + mention_count * 5)

\* score_keywords(keywords, research_data): the dictionary it returns.
ScoreKeywords(keywords, research_data) ==
    [keyword \in Range(keywords) |->
        MentionScore(MentionCountIn(research_data, keyword))]

\* The results of the callers: one whose item holds the letters of "ai" in
\* another case, one whose item holds them inside a word, one researched
\* for "AI" itself without items, one that holds the letters apart.
ScoredResults ==
    { [platform |-> << "w" >>, keyword |-> << "m", "l" >>,
       results |-> << << "A", "i" >> >>],
      [platform |-> << "y" >>, keyword |-> << "m", "l" >>,
       results |-> << << "r", "a", "I", "n" >> >>],
      [platform |-> << "w" >>, keyword |-> << "A", "I" >>,
       results |-> << >>],
      [platform |-> << "y" >>, keyword |-> << "m", "l" >>,
       results |-> << << "a" >>, << "i" >> >>] }

\* The lists of new keywords of the callers.
ScoredKeywordLists ==
    { << >>,
      << << "A", "I" >> >>,
      << << "a", "i" >>, << "M", "L" >>, << "a", "i" >> >>,
      << << "g", "p", "t" >>, << "k" >> >> }

\* The research data of the callers: up to MaxResults results, accumulated
\* for up to MaxRounds keywords that met the same results.
RECURSIVE Repeated(_, _)
Repeated(data, rounds) ==
    IF rounds = 0 THEN << >> ELSE data \o Repeated(data, rounds - 1)

ScoredResearchData ==
    { Repeated(data, rounds) :
        data \in UNION { [1..n -> ScoredResults] : n \in 0..MaxResults },
        rounds \in 1..MaxRounds }

ScoreInit ==
    /\ fnArgs \in { [fn |-> "score_keywords", keywords |-> keywords,
                     research_data |-> research_data] :
                       keywords \in ScoredKeywordLists,
                       research_data \in ScoredResearchData }
    /\ fnStep = "called"
    /\ fnResult = [kind |-> "none"]

\* score_keywords returns
ScoreKeywordsReturns ==
    /\ fnStep = "called"
    /\ fnArgs.fn = "score_keywords"
    /\ fnResult' = [kind |-> "scores",
                    scores |-> ScoreKeywords(fnArgs.keywords,
                                             fnArgs.research_data)]
    /\ fnStep' = "returned"
    /\ UNCHANGED fnArgs
    /\ UNCHANGED notFnVars

ScoreNext == ScoreKeywordsReturns

(***************************************************************************)
(* extract_keywords of KeywordExtractor (extract_new_keywords of           *)
(* AITrendResearcher has the same steps in the same places).               *)
(*                                                                         *)
(* A value of an item is absent from the item ("missing"), None ("null"),  *)
(* an integer ("number") or a text.                                        *)
(***************************************************************************)

Missing == [type |-> "missing", text |-> << >>]

Null == [type |-> "null", text |-> << >>]

Number == [type |-> "number", text |-> << >>]

Text(chars) == [type |-> "text", text |-> chars]

\* result.get(key, default) on an item: the default only for an absent key.
ItemGet(value, default) == IF value.type = "missing" THEN default ELSE value

\* value[:limit]: a text gives its prefix; None and an integer raise
\* TypeError.
Sliceable(value) == value.type = "text"

SliceTo(value, limit) ==
    Text(SubSeq(value.text, 1, Min(limit, Len(value.text))))

\* result.get('description', result.get('snippet', ''))
DescriptionOf(item) ==
    ItemGet(item.description, ItemGet(item.snippet, Text(<< >>)))

\* data['results'][:3]
FirstItems(data) ==
    SubSeq(data.results, 1, Min(DigestItems, Len(data.results)))

\* The digest entries of one result, when every description can be sliced.
DigestOf(data) ==
    LET items == FirstItems(data)
    IN  [i \in 1..Len(items) |->
            [platform |-> data.platform, keyword |-> data.keyword,
             title |-> ItemGet(items[i].title, Text(<< >>)),
             description |-> SliceTo(DescriptionOf(items[i]),
                                     DescriptionLimit)]]

\* _prepare_content_for_analysis: the digest, or the TypeError of the first
\* description that is not a text.
RECURSIVE PrepareContentForAnalysis(_)
PrepareContentForAnalysis(research_data) ==
    IF research_data = << >> THEN [raised |-> FALSE, content |-> << >>]
    ELSE LET data == Head(research_data)
             items == FirstItems(data)
             rest == PrepareContentForAnalysis(Tail(research_data))
         IN  IF \E i \in 1..Len(items) : ~Sliceable(DescriptionOf(items[i]))
             THEN [raised |-> TRUE, content |-> << >>]
             ELSE IF rest.raised THEN rest
             ELSE [raised |-> FALSE, content |-> DigestOf(data) \o rest.content]

\* str.strip() for the blank of the alphabet used here
RECURSIVE StripLeft(_)
StripLeft(text) ==
    IF text # << >> /\ Head(text) = " " THEN StripLeft(Tail(text)) ELSE text

RECURSIVE StripRight(_)
StripRight(text) ==
    IF text # << >> /\ text[Len(text)] = " "
    THEN StripRight(SubSeq(text, 1, Len(text) - 1))
    ELSE text

Strip(text) == StripRight(StripLeft(text))

\* re.search(r'\[.*?\]', response, re.DOTALL) finds a match
HasArrayMatch(text) ==
    \E i, j \in 1..Len(text) : i < j /\ text[i] = "[" /\ text[j] = "]"

\* response.replace('"', '').replace('[', '').replace(']', '')
RECURSIVE Unquoted(_)
Unquoted(text) ==
    IF text = << >> THEN << >>
    ELSE IF Head(text) \in {"\"", "[", "]"} THEN Unquoted(Tail(text))
    ELSE << Head(text) >> \o Unquoted(Tail(text))

\* text.split(',')
RECURSIVE SplitAtCommas(_)
SplitAtCommas(text) ==
    IF \A i \in 1..Len(text) : text[i] # "," THEN << text >>
    ELSE LET c == CHOOSE i \in 1..Len(text) :
                     /\ text[i] = ","
                     /\ \A j \in 1..(i - 1) : text[j] # ","
         IN  << SubSeq(text, 1, c - 1) >>
             \o SplitAtCommas(SubSeq(text, c + 1, Len(text)))

\* [x for x in list if keep(x)]
RECURSIVE SelectSeq2(_, _)
SelectSeq2(list, keep) ==
    IF list = << >> THEN << >>
    ELSE (IF Head(list) \in keep THEN << Head(list) >> ELSE << >>)
         \o SelectSeq2(Tail(list), keep)

\* The fallback of _parse_keywords_from_response:
\* [w.strip() for w in words if w.strip() and len(w.strip()) > 2][:10]
FallbackKeywords(text) ==
    LET words == SplitAtCommas(Unquoted(text))
        stripped == [i \in 1..Len(words) |-> Strip(words[i])]
        kept == SelectSeq2(stripped, {w \in Range(stripped) : Len(w) > 2})
    IN  SubSeq(kept, 1, Min(FallbackLimit, Len(kept)))

\* [k.strip() for k in keywords if isinstance(k, str) and k.strip()]
ArrayKeywords(array) ==
    LET texts == SelectSeq2(array, {k \in Range(array) :
                                      k.type = "text" /\ Strip(k.text) # << >>})
    IN  [i \in 1..Len(texts) |-> Strip(texts[i].text)]

\* _parse_keywords_from_response on a text reply: loads says whether
\* json.loads accepts the matched text, array is what it returns.
ParseKeywordsFromResponse(reply) ==
    IF HasArrayMatch(reply.text) /\ reply.loads = "valid"
    THEN ArrayKeywords(reply.array)
    ELSE FallbackKeywords(reply.text)

\* What the completion service does: the call raises, the message's text is
\* None, or it is a text.
RaisingReply == [kind |-> "raises", text |-> << >>, loads |-> "none", array |-> << >>]

NoneReply == [kind |-> "none_text", text |-> << >>, loads |-> "none", array |-> << >>]

TextReply(text, loads, array) ==
    [kind |-> "text", text |-> text, loads |-> loads, array |-> array]

Replies ==
    { RaisingReply,
      NoneReply,
      \* ["rag", 7, " "]
      TextReply(<< "[", "\"", "r", "a", "g", "\"", ",", "7", ",", "\"", " ", "\"", "]" >>,
                "valid", << Text(<< "r", "a", "g" >>), Number, Text(<< " " >>) >>),
      \* []
      TextReply(<< "[", "]" >>, "valid", << >>),
      \* [rag, ml ops]  (no JSON)
      TextReply(<< "[", "r", "a", "g", ",", " ", "m", "l", " ", "o", "p", "s", "]" >>,
                "invalid", << >>),
      \* no keywords
      TextReply(<< "n", "o", "n", "e" >>, "none", << >>) }

\* The items of the callers: each of title, description and snippet absent,
\* None, an integer or a text.
ExtractItems ==
    [title : {Missing, Null, Text(<< "r", "a", "g" >>)},
     description : {Missing, Null, Number, Text(<< "n", "e", "w" >>)},
     snippet : {Missing, Null, Text(<< "o", "l", "d" >>)}]

\* The research data of the callers: nothing, one result without items, or
\* one result with up to MaxItems items.
ExtractResearchData ==
    { << >> }
    \cup { << [platform |-> "web", keyword |-> "ai", results |-> items] >> :
             items \in UNION { [1..n -> ExtractItems] : n \in 0..MaxItems } }

ExtractInit ==
    /\ fnArgs \in { [fn |-> "extract_keywords", research_data |-> research_data,
                     claude_client |-> claude_client, reply |-> reply] :
                       research_data \in ExtractResearchData,
                       claude_client \in {"None", "client"},
                       reply \in Replies }
    /\ fnStep = "called"
    /\ fnResult = [kind |-> "none"]

\* extract_keywords up to the try block: the early returns and
\* _prepare_content_for_analysis, whose exception leaves extract_keywords.
ExtractPrepares ==
    /\ fnStep = "called"
    /\ fnArgs.fn = "extract_keywords"
    /\ LET prepared == PrepareContentForAnalysis(fnArgs.research_data)
       IN  IF fnArgs.research_data = << >> \/ fnArgs.claude_client = "None"
           THEN /\ fnStep' = "returned"
                /\ fnResult' = [kind |-> "returned", list |-> << >>,
                                errored |-> FALSE]
           ELSE IF prepared.raised
           THEN /\ fnStep' = "raised"
                /\ fnResult' = [kind |-> "raised", list |-> << >>,
                                errored |-> TRUE]
           ELSE IF prepared.content = << >>
           THEN /\ fnStep' = "returned"
                /\ fnResult' = [kind |-> "returned", list |-> << >>,
                                errored |-> FALSE]
           ELSE /\ fnStep' = "in_try"
                /\ fnResult' = [kind |-> "digest", list |-> << >>,
                                errored |-> FALSE]
    /\ UNCHANGED fnArgs
    /\ UNCHANGED notFnVars

\* The try block of extract_keywords: the prompt, the completion call and
\* the parse; "except Exception" returns [].  A reply whose text is None
\* makes re.search raise inside the parser's own try, whose fallback then
\* raises AttributeError into the outer handler.
ExtractCompletes ==
    /\ fnStep = "in_try"
    /\ fnArgs.fn = "extract_keywords"
    /\ fnStep' = "returned"
    /\ fnResult' =
          IF fnArgs.reply.kind \in {"raises", "none_text"}
          THEN [kind |-> "returned", list |-> << >>, errored |-> TRUE]
          ELSE [kind |-> "returned",
                list |-> ParseKeywordsFromResponse(fnArgs.reply),
                errored |-> HasArrayMatch(fnArgs.reply.text)
                            /\ fnArgs.reply.loads = "invalid"]
    /\ UNCHANGED fnArgs
    /\ UNCHANGED notFnVars

ExtractNext == ExtractPrepares \/ ExtractCompletes

(***************************************************************************)
(* create_notion_report of NotionReportGenerator.                          *)
(*                                                                         *)
(* A text is modelled by its number of characters (0: an empty or blank    *)
(* text), a block by its type and the text of its one rich_text item.      *)
(***************************************************************************)

Block(type, content) == [object |-> "block", type |-> type, content |-> content]

\* len(str(n)) for 0 <= n < 1000
Digits(n) == IF n < 10 THEN 1 ELSE IF n < 100 THEN 2 ELSE 3

RECURSIVE SumOf(_)
SumOf(lengths) ==
    IF lengths = << >> THEN 0 ELSE Head(lengths) + SumOf(Tail(lengths))

\* len(sep.join([t for t in texts if isinstance(t, str) and t.strip()]))
JoinedLength(texts, sep) ==
    LET kept == SelectSeq2(texts, {t \in Range(texts) : t > 0})
    IN  IF kept = << >> THEN 0 ELSE SumOf(kept) + sep * (Len(kept) - 1)

\* The blocks _create_simple_notion_blocks adds for the platforms of
\* detailed_results, grouped: one paragraph "<PLATFORM>: <n> results" for
\* each platform that has items.
PlatformBlocks(platforms) ==
    LET withItems == SelectSeq2(platforms,
                                {pl \in Range(platforms) : pl.results > 0})
    IN  [i \in 1..Len(withItems) |->
            Block("paragraph",
                  withItems[i].name + 2 + Digits(withItems[i].results) + 8)]

\* _create_simple_notion_blocks
CreateSimpleNotionBlocks(report) ==
    LET keywords_text == JoinedLength(report.new_keywords, 2)
        rec_text == JoinedLength(report.recommendations, 3)
    IN  << Block("heading_1", 27 + report.date),
           Block("paragraph",
                 59 + Digits(Len(report.platforms)) + 1
                    + Digits(Len(report.new_keywords)) + 1) >>
        \o (IF report.new_keywords # << >>
            THEN << Block("heading_2", 12) >>
                 \o (IF keywords_text > 0
                     THEN << Block("paragraph", keywords_text) >> ELSE << >>)
            ELSE << >>)
        \o (IF report.recommendations # << >>
            THEN << Block("heading_2", 15) >>
                 \o (IF rec_text > 0
                     THEN << Block("paragraph", rec_text) >> ELSE << >>)
            ELSE << >>)
        \o (IF report.platforms # << >>
            THEN << Block("heading_2", 16) >> \o PlatformBlocks(report.platforms)
            ELSE << >>)

\* _validate_blocks_structure: every text item has content that is not
\* blank.
ValidateBlocksStructure(blocks) ==
    \A i \in 1..Len(blocks) : blocks[i].content > 0

\* _validate_block_type_structure: content longer than 2000 characters is
\* replaced by content[:2000] + "...".
ValidateBlockTypeStructure(block) ==
    IF block.content > ContentLimit
    THEN [block EXCEPT !.content = ContentLimit + EllipsisLength]
    ELSE block

\* _final_validate_blocks: the blocks that pass, as the validation left
\* them.
FinalValidateBlocks(blocks) ==
    LET passing == SelectSeq2(blocks, {b \in Range(blocks) : b.content > 0})
    IN  [i \in 1..Len(passing) |-> ValidateBlockTypeStructure(passing[i])]

\* validated_blocks[:20] when there are more than 20
LimitBlocks(validated_blocks) ==
    IF Len(validated_blocks) > BlockLimit
    THEN SubSeq(validated_blocks, 1, BlockLimit)
    ELSE validated_blocks

\* The reports of the callers: short, blank and long keywords and
\* recommendations, and up to MaxPlatforms platforms with items.
ReportKeywordLists ==
    UNION { [1..n -> {0, 5, 1990, 2001}] : n \in 0..MaxReportKeywords }

ReportRecommendations == { << >>, << 40 >>, << 1200, 1300 >> }

ReportPlatforms ==
    { [i \in 1..n |-> [name |-> 3, results |-> IF i = 2 THEN 0 ELSE 12]] :
         n \in 0..MaxPlatforms }

NotionInit ==
    /\ fnArgs \in { [fn |-> "create_notion_report",
                     notion_client |-> notion_client,
                     parent_page_id |-> parent_page_id,
                     report |-> [date |-> 10, new_keywords |-> keywords,
                                 recommendations |-> recommendations,
                                 platforms |-> platforms]] :
                       notion_client \in {"None", "client"},
                       parent_page_id \in {"", "page"},
                       keywords \in ReportKeywordLists,
                       recommendations \in ReportRecommendations,
                       platforms \in ReportPlatforms }
    /\ fnStep = "called"
    /\ fnResult = [kind |-> "none", children |-> << >>]

\* create_notion_report up to the validated blocks: the early return, the
\* simple blocks and their validation (simple blocks never hold a blank
\* text, so the detailed blocks are never built).
NotionBuildsBlocks ==
    /\ fnStep = "called"
    /\ fnArgs.fn = "create_notion_report"
    /\ LET blocks == CreateSimpleNotionBlocks(fnArgs.report)
           validated_blocks == FinalValidateBlocks(blocks)
       IN  IF fnArgs.notion_client = "None" \/ fnArgs.parent_page_id = ""
           THEN /\ fnStep' = "returned"
                /\ fnResult' = [kind |-> "skipped", children |-> << >>]
           ELSE IF ~ValidateBlocksStructure(blocks) \/ validated_blocks = << >>
           THEN /\ fnStep' = "returned"
                /\ fnResult' = [kind |-> "skipped", children |-> << >>]
           ELSE /\ fnStep' = "validated"
                /\ fnResult' = [kind |-> "validated",
                                children |-> validated_blocks]
    /\ UNCHANGED fnArgs
    /\ UNCHANGED notFnVars

\* The rest of create_notion_report: the limit on the number of blocks and
\* the create-page call, whose exception is swallowed.
NotionSubmits ==
    /\ fnStep = "validated"
    /\ fnArgs.fn = "create_notion_report"
    /\ fnStep' = "returned"
    /\ \E kind \in {"created", "call_failed"} :
          fnResult' = [kind |-> kind, children |-> LimitBlocks(fnResult.children)]
    /\ UNCHANGED fnArgs
    /\ UNCHANGED notFnVars

NotionNext == NotionBuildsBlocks \/ NotionSubmits

(***************************************************************************)
(* research_keyword of HackerNewsHandler.                                  *)
(*                                                                         *)
(* A post holds what its title is (a text, the placeholder 'undefined', or *)
(* nothing) and what its score is (a number, 'undefined', None, or no      *)
(* entry).  A tool call raises or answers with a list of posts.            *)
(***************************************************************************)

Post(title, score) == [title |-> title, score |-> score]

\* The posts of the responses.
Posts ==
    { Post("text", "number"), Post("undefined", "number"),
      Post("missing", "number"), Post("text", "undefined"),
      Post("text", "None"), Post("text", "missing") }

\* The outcomes of one tool call: an exception (raised), or up to MaxPosts
\* posts.
ToolResponses ==
    { [raised |-> TRUE, posts |-> << >>] }
    \cup { [raised |-> FALSE, posts |-> posts] :
              posts \in UNION { [1..n -> Posts] : n \in 0..MaxPosts } }

\* The test of _has_undefined_values on one post: the title is 'undefined'
\* or empty, or the score ('score', else 'points', else 0) is 'undefined'
\* or None.
PostIsInvalid(post) ==
    \/ post.title \in {"undefined", "missing"}
    \/ post.score \in {"undefined", "None"}

\* _has_undefined_values: invalid_count / total_count > 0.5
HasUndefinedValues(posts) ==
    IF posts = << >> THEN TRUE
    ELSE 2 * Cardinality({i \in 1..Len(posts) : PostIsInvalid(posts[i])})
            > Len(posts)

\* process_response raises: _calculate_trend_score compares the score with
\* numbers, which raises TypeError for 'undefined' and for None.
ProcessResponseRaises(posts) ==
    \E i \in 1..Len(posts) : posts[i].score \in {"undefined", "None"}

\* What fnResult holds: the kind of result, the operation whose response it
\* was built from, the posts of that response, the operations called so
\* far.
HnResult(kind, operation, posts, calls) ==
    [kind |-> kind, op |-> operation, posts |-> posts, calls |-> calls]

HnInit ==
    /\ fnArgs \in { [fn |-> "research_keyword", broader_keywords |-> n] :
                       n \in 0..MaxBroader }
    /\ fnStep = "top_stories"
    /\ fnResult = HnResult("none", "none", << >>, << >>)

\* The first getStories call: any posts give the result at once.  An
\* exception of the call or of process_response is printed and the search
\* follows.
HnTopStories ==
    /\ fnStep = "top_stories"
    /\ fnArgs.fn = "research_keyword"
    /\ \E response \in ToolResponses :
          LET calls == Append(fnResult.calls, "getStories")
          IN  IF /\ ~response.raised
                 /\ response.posts # << >>
                 /\ ~ProcessResponseRaises(response.posts)
              THEN /\ fnStep' = "returned"
                   /\ fnResult' = HnResult("populated", "getStories",
                                           response.posts, calls)
              ELSE /\ fnStep' = "search"
                   /\ fnResult' = HnResult("none", "none", << >>, calls)
    /\ UNCHANGED fnArgs
    /\ UNCHANGED notFnVars

\* The search call with the translated keyword.  An exception of the call
\* or of process_response reaches the outer handler: an error result.
HnSearch ==
    /\ fnStep = "search"
    /\ fnArgs.fn = "research_keyword"
    /\ \E response \in ToolResponses :
          LET calls == Append(fnResult.calls, "search")
          IN  IF response.raised
              THEN /\ fnStep' = "returned"
                   /\ fnResult' = HnResult("error", "search", << >>, calls)
              ELSE IF HasUndefinedValues(response.posts)
              THEN /\ fnStep' = "broader"
                   /\ fnResult' = HnResult("none", "none", << >>, calls)
              ELSE /\ fnStep' = "returned"
                   /\ fnResult' =
                         IF ProcessResponseRaises(response.posts)
                         THEN HnResult("error", "search", response.posts, calls)
                         ELSE HnResult("populated", "search", response.posts,
                                       calls)
    /\ UNCHANGED fnArgs
    /\ UNCHANGED notFnVars

\* The broader keywords tried so far.
BroaderTried ==
    Cardinality({i \in 1..Len(fnResult.calls) :
                    fnResult.calls[i] = "broader_search"})

\* One pass of the loop over the broader keywords: an exception of the call
\* or of process_response goes on to the next keyword.
HnBroaderSearch ==
    /\ fnStep = "broader"
    /\ fnArgs.fn = "research_keyword"
    /\ BroaderTried < fnArgs.broader_keywords
    /\ \E response \in ToolResponses :
          LET calls == Append(fnResult.calls, "broader_search")
          IN  IF /\ ~response.raised
                 /\ ~HasUndefinedValues(response.posts)
                 /\ ~ProcessResponseRaises(response.posts)
              THEN /\ fnStep' = "returned"
                   /\ fnResult' = HnResult("populated", "broader_search",
                                           response.posts, calls)
              ELSE /\ fnStep' = "broader"
                   /\ fnResult' = HnResult("none", "none", << >>, calls)
    /\ UNCHANGED fnArgs
    /\ UNCHANGED notFnVars

\* After the loop: getStories once more; any posts give the result, else
\* the error result "No meaningful results found".
HnFallbackStories ==
    /\ fnStep = "broader"
    /\ fnArgs.fn = "research_keyword"
    /\ BroaderTried = fnArgs.broader_keywords
    /\ \E response \in ToolResponses :
          LET calls == Append(fnResult.calls, "getStories")
          IN  /\ fnStep' = "returned"
              /\ fnResult' =
                    IF /\ ~response.raised
                       /\ response.posts # << >>
                       /\ ~ProcessResponseRaises(response.posts)
                    THEN HnResult("populated", "getStories", response.posts,
                                  calls)
                    ELSE HnResult("error", "none", << >>, calls)
    /\ UNCHANGED fnArgs
    /\ UNCHANGED notFnVars

HnNext == HnTopStories \/ HnSearch \/ HnBroaderSearch \/ HnFallbackStories

(***************************************************************************)
(* research_keyword of ArxivHandler and of HackerNewsHandler: the          *)
(* translation of the keyword, the calls of the tool and the broadened     *)
(* searches.                                                               *)
(*                                                                         *)
(* A keyword is a sequence of characters.  claude_client is present or     *)
(* None; each messages.create call of a present client returns a reply or  *)
(* raises.  Each call_tool gives papers/posts, gives none, or raises.      *)
(***************************************************************************)

TextLLM == <<"L", "L", "M">>
TextGPT == <<"G", "P", "T">>
TextChat == <<"C", "h", "a", "t">>
TextChatGPT == <<"C", "h", "a", "t", "G", "P", "T">>
TextRag == <<"r", "a", "g">>
TextAI == <<"A", "I">>
TextLargeLanguageModels ==
    <<"l", "a", "r", "g", "e", " ", "l", "a", "n", "g", "u", "a", "g", "e",
      " ", "m", "o", "d", "e", "l", "s">>

\* The entries of the dictionary `translations` whose keys are written in
\* Latin letters, in the order of the dictionary.  No keyword of
\* QueryKeywords contains or is contained in a key that is left out.
Translations ==
    << [jp |-> TextLLM, en |-> TextLargeLanguageModels],
       [jp |-> TextGPT, en |-> TextGPT],
       [jp |-> TextChatGPT, en |-> TextChatGPT] >>

\* _translate_keyword_to_english_fallback of HackerNewsHandler: the direct
\* entry, else the first entry whose key contains the keyword or is
\* contained in it, else the keyword.
TranslateKeywordToEnglishFallback(keyword) ==
    LET direct == {i \in 1..Len(Translations) : Translations[i].jp = keyword}
        partial == {i \in 1..Len(Translations) :
                       \/ Contains(keyword, Translations[i].jp)
                       \/ Contains(Translations[i].jp, keyword)}
        First(S) == CHOOSE i \in S : \A j \in S : i <= j
    IN  IF direct # {} THEN Translations[First(direct)].en
        ELSE IF partial # {} THEN Translations[First(partial)].en
        ELSE keyword

QueryKeywords == {TextLLM, TextChat, TextRag}

\* response.content[0].text.strip() of a translation or of a broader query
ClaudeReplies == {TextAI, TextLLM}

\* The keywords of a reply "kw, kw, ..." after the split at the commas.
SuggestedKeywords(n) == [i \in 1..n |-> TextAI]

\* for broader_keyword in <a str>: the characters of the string
CharactersOf(text) == [i \in 1..Len(text) |-> <<text[i]>>]

ToolCallOutcomes == {"items", "no_items", "raises"}

QueryState(kind, translate, english_query, calls, broader_keywords, error) ==
    [kind |-> kind, translate |-> translate, english_query |-> english_query,
     calls |-> calls, broader_keywords |-> broader_keywords, error |-> error]

QueryInit ==
    /\ fnArgs \in [fn : {"arxiv.research_keyword", "hackernews.research_keyword"},
                   keyword : QueryKeywords,
                   claude_client : BOOLEAN]
    /\ fnStep = IF fnArgs.fn = "arxiv.research_keyword" THEN "translate"
                ELSE "top_stories"
    /\ fnResult = QueryState("none", "pending", << >>, 0, << >>, "none")

\* create_error_result(keyword, str(e)) or the result of process_response
QueryReturns(kind, error) ==
    /\ fnStep' = "returned"
    /\ fnResult' = [fnResult EXCEPT !.kind = kind, !.error = error]

QueryReturnsAfterCall(kind, error) ==
    /\ fnStep' = "returned"
    /\ fnResult' = [fnResult EXCEPT !.kind = kind, !.error = error,
                                    !.calls = @ + 1]

\* ArxivHandler._translate_keyword_with_claude, called in the try block of
\* research_keyword.  ArxivHandler has no method
\* _translate_keyword_to_english_fallback: without a client the call raises
\* AttributeError, which research_keyword turns into an error result.  When
\* messages.create raises the keyword itself is returned.
ArxivTranslate ==
    /\ fnArgs.fn = "arxiv.research_keyword"
    /\ fnStep = "translate"
    /\ \/ /\ ~fnArgs.claude_client
          /\ fnStep' = "returned"
          /\ fnResult' = [fnResult EXCEPT !.kind = "error",
                                          !.translate = "unavailable",
                                          !.error = "AttributeError"]
       \/ /\ fnArgs.claude_client
          /\ \E reply \in ClaudeReplies :
                fnResult' = [fnResult EXCEPT !.translate = "returned",
                                             !.english_query = reply]
          /\ fnStep' = "search"
       \/ /\ fnArgs.claude_client
          /\ fnResult' = [fnResult EXCEPT !.translate = "raised",
                                          !.english_query = fnArgs.keyword]
          /\ fnStep' = "search"
    /\ UNCHANGED <<fnArgs>>
    /\ UNCHANGED notFnVars

\* The primary call of search_arxiv.  Papers give the result at once; an
\* exception gives an error result.
ArxivSearch ==
    /\ fnArgs.fn = "arxiv.research_keyword"
    /\ fnStep = "search"
    /\ \E answer \in ToolCallOutcomes :
          CASE answer = "raises" -> QueryReturnsAfterCall("error", "tool")
            [] answer = "items" -> QueryReturnsAfterCall("result", "none")
            [] OTHER ->
                  /\ fnStep' = "fallback_query"
                  /\ fnResult' = [fnResult EXCEPT !.calls = @ + 1]
    /\ UNCHANGED <<fnArgs>>
    /\ UNCHANGED notFnVars

\* _get_fallback_query_with_claude and the test fallback_query !=
\* english_query.  _get_fallback_query_fallback is not defined either; when
\* messages.create raises the query itself is returned and no second call
\* is made.
ArxivFallbackQuery ==
    /\ fnArgs.fn = "arxiv.research_keyword"
    /\ fnStep = "fallback_query"
    /\ \/ /\ ~fnArgs.claude_client
          /\ QueryReturns("error", "AttributeError")
       \/ /\ fnArgs.claude_client
          /\ \E reply \in ClaudeReplies :
                IF reply # fnResult.english_query
                THEN /\ fnStep' = "fallback_search"
                     /\ fnResult' = [fnResult EXCEPT
                                        !.broader_keywords = <<reply>>]
                ELSE QueryReturns("result", "none")
       \/ /\ fnArgs.claude_client
          /\ QueryReturns("result", "none")
    /\ UNCHANGED <<fnArgs>>
    /\ UNCHANGED notFnVars

\* The call of search_arxiv with the fallback query; process_response
\* follows whatever it gives.
ArxivFallbackSearch ==
    /\ fnArgs.fn = "arxiv.research_keyword"
    /\ fnStep = "fallback_search"
    /\ \E answer \in ToolCallOutcomes :
          IF answer = "raises"
          THEN QueryReturnsAfterCall("error", "tool")
          ELSE QueryReturnsAfterCall("result", "none")
    /\ UNCHANGED <<fnArgs>>
    /\ UNCHANGED notFnVars

\* The first getStories call of HackerNewsHandler.research_keyword.
HnGetStories ==
    /\ fnArgs.fn = "hackernews.research_keyword"
    /\ fnStep = "top_stories"
    /\ \E answer \in ToolCallOutcomes :
          IF answer = "items"
          THEN QueryReturnsAfterCall("result", "none")
          ELSE /\ fnStep' = "translate"
               /\ fnResult' = [fnResult EXCEPT !.calls = @ + 1]
    /\ UNCHANGED <<fnArgs>>
    /\ UNCHANGED notFnVars

\* HackerNewsHandler._translate_keyword_with_claude: without a client, and
\* when messages.create raises, the dictionary translates.
HnTranslate ==
    /\ fnArgs.fn = "hackernews.research_keyword"
    /\ fnStep = "translate"
    /\ \/ /\ ~fnArgs.claude_client
          /\ fnResult' = [fnResult EXCEPT
                !.translate = "unavailable",
                !.english_query =
                    TranslateKeywordToEnglishFallback(fnArgs.keyword)]
       \/ /\ fnArgs.claude_client
          /\ \E reply \in ClaudeReplies :
                fnResult' = [fnResult EXCEPT !.translate = "returned",
                                             !.english_query = reply]
       \/ /\ fnArgs.claude_client
          /\ fnResult' = [fnResult EXCEPT
                !.translate = "raised",
                !.english_query =
                    TranslateKeywordToEnglishFallback(fnArgs.keyword)]
    /\ fnStep' = "search"
    /\ UNCHANGED <<fnArgs>>
    /\ UNCHANGED notFnVars

\* The call of search with the translated keyword.
HnSearchTranslated ==
    /\ fnArgs.fn = "hackernews.research_keyword"
    /\ fnStep = "search"
    /\ \E answer \in ToolCallOutcomes :
          CASE answer = "raises" -> QueryReturnsAfterCall("error", "tool")
            [] answer = "items" -> QueryReturnsAfterCall("result", "none")
            [] OTHER ->
                  /\ fnStep' = "broader_keywords"
                  /\ fnResult' = [fnResult EXCEPT !.calls = @ + 1]
    /\ UNCHANGED <<fnArgs>>
    /\ UNCHANGED notFnVars

\* _get_broader_keywords_with_claude.  _get_broader_keywords_fallback is not
\* defined: without a client AttributeError ends research_keyword.  A reply
\* gives broader_keywords[:3].  When messages.create raises, the string
\* keyword is returned, and the for loop goes through its characters.
HnBroaderKeywords ==
    /\ fnArgs.fn = "hackernews.research_keyword"
    /\ fnStep = "broader_keywords"
    /\ \/ /\ ~fnArgs.claude_client
          /\ QueryReturns("error", "AttributeError")
       \/ /\ fnArgs.claude_client
          /\ \E n \in 0..MaxSuggested :
                fnResult' = [fnResult EXCEPT !.broader_keywords =
                    SuggestedKeywords(IF n < BroaderLimit THEN n
                                      ELSE BroaderLimit)]
          /\ fnStep' = "broader"
       \/ /\ fnArgs.claude_client
          /\ fnResult' = [fnResult EXCEPT !.broader_keywords =
                              CharactersOf(fnResult.english_query)]
          /\ fnStep' = "broader"
    /\ UNCHANGED <<fnArgs>>
    /\ UNCHANGED notFnVars

\* One turn of the loop over broader_keywords: posts give the result, no
\* posts or an exception lead to the next broader keyword.
HnBroaderQuery ==
    /\ fnArgs.fn = "hackernews.research_keyword"
    /\ fnStep = "broader"
    /\ fnResult.broader_keywords # << >>
    /\ \E answer \in ToolCallOutcomes :
          IF answer = "items"
          THEN QueryReturnsAfterCall("result", "none")
          ELSE /\ fnStep' = "broader"
               /\ fnResult' = [fnResult EXCEPT
                                  !.calls = @ + 1,
                                  !.broader_keywords = Tail(@)]
    /\ UNCHANGED <<fnArgs>>
    /\ UNCHANGED notFnVars

\* After the loop: getStories once more, else the error result "No
\* meaningful results found".
HnFallbackGetStories ==
    /\ fnArgs.fn = "hackernews.research_keyword"
    /\ fnStep = "broader"
    /\ fnResult.broader_keywords = << >>
    /\ \E answer \in ToolCallOutcomes :
          IF answer = "items"
          THEN QueryReturnsAfterCall("result", "none")
          ELSE QueryReturnsAfterCall("error", "No meaningful results found")
    /\ UNCHANGED <<fnArgs>>
    /\ UNCHANGED notFnVars

QueryNext ==
    \/ ArxivTranslate
    \/ ArxivSearch
    \/ ArxivFallbackQuery
    \/ ArxivFallbackSearch
    \/ HnGetStories
    \/ HnTranslate
    \/ HnSearchTranslated
    \/ HnBroaderKeywords
    \/ HnBroaderQuery
    \/ HnFallbackGetStories

(***************************************************************************)
(* The trend scores of GitHubHandler, ArxivHandler and HackerNewsHandler.  *)
(*                                                                         *)
(* A score is held in hundredths, the unit round(score, 2) leaves.         *)
(***************************************************************************)

AgeArgs == (0 - 1)..MaxAge \cup {30, 31, 90, 91, 364, 365, 366}

StarArgs == {0 - 100, 0, 50, 150, 3000}

CountArgs == {0, 6, 11, 21, 51, 101}

Max(a, b) == IF a >= b THEN a ELSE b

\* round(n / d, 0) for d > 0, halves to the even neighbour
RoundRatio(n, d) ==
    LET q == n \div d
        r == n % d
    IN  IF 2 * r > d \/ (2 * r = d /\ q % 2 = 1) THEN q + 1 ELSE q

\* GitHubHandler._calculate_trend_score(stars, days_old, star_rate), with
\* the star_rate and the days_old process_response passes to it: those of
\* _calculate_trend_metrics, stars / days_old for an age of a day or more
\* and (0.0, 0) otherwise.  In hundredths the sum of the bonuses is
\*    100 * min(10 * stars, 50 * days_old) / days_old
\*  + min(stars, 2000) + 100 * max(0, (365 - days_old) * 6) / 73
\*  + 100 * acceleration_bonus.
GitHubTrendScore(stars, days_old) ==
    IF days_old <= 0 THEN 0
    ELSE LET base == 100 * Min(10 * stars, 50 * days_old)
             star_bonus == Min(stars, 2000)
             recency == 100 * Max(0, (365 - days_old) * 6)
             acceleration_bonus ==
                 IF stars >= 2 * days_old THEN 20
                 ELSE IF stars >= days_old THEN 10
                 ELSE 0
             whole == (base \div days_old) + star_bonus + (recency \div 73)
                         + 100 * acceleration_bonus
             \* the fractions of a hundredth left by the two divisions
             part == 73 * (base % days_old) + days_old * (recency % 73)
             total_score == whole + RoundRatio(part, 73 * days_old)
         IN  Min(total_score, 10000)

\* ArxivHandler._calculate_trend_score(paper)
ArxivTrendScore(paper) ==
    LET days_old == IF paper.has_days_old THEN paper.days_old ELSE 0
        recency == IF days_old <= 30 THEN 30
                   ELSE IF days_old <= 90 THEN 20
                   ELSE IF days_old <= 365 THEN 10
                   ELSE 0
        citations == IF paper.citation_count > 100 THEN 25
                     ELSE IF paper.citation_count > 50 THEN 15
                     ELSE IF paper.citation_count > 10 THEN 5
                     ELSE 0
        relevance == IF paper.ai_category THEN 15 ELSE 0
    IN  100 * Min(recency + citations + relevance, 100)

\* HackerNewsHandler._calculate_trend_score(score, days_old, comments_count)
HackerNewsTrendScore(score, days_old, comments_count) ==
    LET score_bonus == IF score > 100 THEN 30
                       ELSE IF score > 50 THEN 20
                       ELSE IF score > 20 THEN 10
                       ELSE 0
        recency == IF days_old <= 1 THEN 25
                   ELSE IF days_old <= 3 THEN 15
                   ELSE IF days_old <= 7 THEN 5
                   ELSE 0
        engagement == IF comments_count > 50 THEN 20
                      ELSE IF comments_count > 20 THEN 10
                      ELSE IF comments_count > 5 THEN 5
                      ELSE 0
    IN  100 * Min(score_bonus + recency + engagement, 100)

\* The trend score of the item args at the age days_old.
TrendScoreAtAge(args, days_old) ==
    CASE args.fn = "github.trend_score" ->
            GitHubTrendScore(args.stars, days_old)
      [] args.fn = "arxiv.trend_score" ->
            ArxivTrendScore([args EXCEPT !.days_old = days_old])
      [] args.fn = "hackernews.trend_score" ->
            HackerNewsTrendScore(args.score, days_old, args.comments_count)

TrendInit ==
    /\ fnArgs \in
          [fn : {"github.trend_score"}, stars : StarArgs, days_old : AgeArgs]
          \cup [fn : {"arxiv.trend_score"}, has_days_old : BOOLEAN,
                days_old : AgeArgs, citation_count : CountArgs,
                ai_category : BOOLEAN]
          \cup [fn : {"hackernews.trend_score"}, score : CountArgs,
                days_old : AgeArgs, comments_count : CountArgs]
    /\ fnStep = "called"
    /\ fnResult = [kind |-> "none"]

TrendScoreReturns(trend_score) ==
    /\ fnStep' = "returned"
    /\ fnResult' = [kind |-> "trend_score", trend_score |-> trend_score]
    /\ UNCHANGED <<fnArgs>>
    /\ UNCHANGED notFnVars

GitHubScores ==
    /\ fnStep = "called"
    /\ fnArgs.fn = "github.trend_score"
    /\ TrendScoreReturns(GitHubTrendScore(fnArgs.stars, fnArgs.days_old))

ArxivScores ==
    /\ fnStep = "called"
    /\ fnArgs.fn = "arxiv.trend_score"
    /\ TrendScoreReturns(ArxivTrendScore(fnArgs))

HackerNewsScores ==
    /\ fnStep = "called"
    /\ fnArgs.fn = "hackernews.trend_score"
    /\ TrendScoreReturns(HackerNewsTrendScore(fnArgs.score, fnArgs.days_old,
                                              fnArgs.comments_count))

TrendNext == GitHubScores \/ ArxivScores \/ HackerNewsScores

(***************************************************************************)
(* process_response of YouTubeHandler, GitHubHandler and                   *)
(* HackerNewsHandler: what the handler takes out of the tool's response    *)
(* and the results it builds from it.                                      *)
(*                                                                         *)
(* A response is a list whose first element has a text ("text_list"), a    *)
(* list of dictionaries ("item_list", the empty list included), a          *)
(* dictionary ("dict") or something else.  The text is a JSON list, a      *)
(* JSON dictionary, another JSON value, the numbered format of the         *)
(* HackerNews server, the words "No stories found", or other lines.        *)
(* count is the number of well-formed items the response describes.        *)
(***************************************************************************)

TextKinds ==
    {"json_list", "json_dict", "json_scalar", "numbered", "no_stories",
     "lines"}

Response(shape, text, count) ==
    [shape |-> shape, text |-> text, count |-> count]

Responses ==
    {Response("text_list", text, n) :
        text \in TextKinds \ {"json_scalar", "no_stories"},
        n \in 0..MaxDescribed}
    \cup {Response("text_list", "json_scalar", 0),
          Response("text_list", "no_stories", 0),
          Response("other", "none", 0)}
    \cup {Response(shape, "none", n) :
            shape \in {"item_list", "dict"}, n \in 0..MaxDescribed}

\* What an _extract_ method returns: a list of dictionaries ("items"), the
\* list of text elements itself ("texts"), a dictionary holding a list of
\* items ("dict"), or a JSON value that is neither ("scalar").
Extracted(type, count) == [kind |-> "extracted", type |-> type, count |-> count]

\* YouTubeHandler._extract_data_from_response: json.loads of the text of the
\* first element ({} when it does not decode), else the list, else the
\* dictionary, else {}.
ExtractDataFromResponse(response) ==
    CASE response.shape = "text_list" ->
            CASE response.text = "json_list" -> Extracted("items", response.count)
              [] response.text = "json_dict" -> Extracted("dict", response.count)
              [] response.text = "json_scalar" -> Extracted("scalar", 0)
              [] OTHER -> Extracted("dict", 0)
      [] response.shape = "item_list" ->
            IF response.count > 0 THEN Extracted("items", response.count)
            ELSE Extracted("dict", 0)
      [] response.shape = "dict" -> Extracted("dict", response.count)
      [] OTHER -> Extracted("dict", 0)

\* GitHubHandler._extract_repositories: a list response is taken as it is,
\* a dictionary gives its repositories.  The text of the first element is
\* decoded only if `not repos` for a list that is not empty, which no
\* response satisfies.
ExtractRepositories(response) ==
    CASE response.shape = "text_list" -> Extracted("texts", 1)
      [] response.shape = "item_list" -> Extracted("items", response.count)
      [] response.shape = "dict" -> Extracted("items", response.count)
      [] OTHER -> Extracted("items", 0)

\* HackerNewsHandler._extract_posts
ExtractPosts(response) ==
    CASE response.shape = "text_list" ->
            CASE response.text = "no_stories" -> Extracted("items", 0)
              [] response.text = "numbered" ->
                    Extracted("items", response.count)
              [] response.text \in {"json_list", "json_dict"} ->
                    Extracted("items", response.count)
              [] response.text = "json_scalar" -> Extracted("items", 0)
              [] OTHER -> Extracted("items", response.count)
      [] response.shape = "item_list" -> Extracted("items", response.count)
      [] response.shape = "dict" -> Extracted("items", response.count)
      [] OTHER -> Extracted("items", 0)

NormInit ==
    /\ fnArgs \in [fn : {"youtube.process_response",
                         "github.process_response",
                         "hackernews.process_response"},
                   response : Responses]
    /\ fnStep = "extract"
    /\ fnResult = [kind |-> "none", type |-> "none", count |-> 0]

\* The first statements of process_response: the call of the _extract_
\* method.
NormExtracts ==
    /\ fnStep = "extract"
    /\ fnResult' =
          CASE fnArgs.fn = "youtube.process_response" ->
                  ExtractDataFromResponse(fnArgs.response)
            [] fnArgs.fn = "github.process_response" ->
                  ExtractRepositories(fnArgs.response)
            [] fnArgs.fn = "hackernews.process_response" ->
                  ExtractPosts(fnArgs.response)
    /\ fnStep' = "build"
    /\ UNCHANGED <<fnArgs>>
    /\ UNCHANGED notFnVars

\* YouTubeHandler.process_response after the extraction: videos = data if
\* isinstance(data, list) else data.get('videos', data.get('items', [])),
\* which raises AttributeError for a value without get.
YouTubeBuildsResults ==
    /\ fnStep = "build"
    /\ fnArgs.fn = "youtube.process_response"
    /\ fnResult' =
          IF fnResult.type = "scalar"
          THEN [kind |-> "raises", type |-> "AttributeError", count |-> 0]
          ELSE [kind |-> "results", type |-> "items",
                count |-> fnResult.count]
    /\ fnStep' = "returned"
    /\ UNCHANGED <<fnArgs>>
    /\ UNCHANGED notFnVars

\* The loops of GitHubHandler.process_response and of
\* HackerNewsHandler.process_response: one result for each element that is
\* a dictionary.
ItemsBuildResults ==
    /\ fnStep = "build"
    /\ fnArgs.fn \in {"github.process_response", "hackernews.process_response"}
    /\ fnResult' = [kind |-> "results", type |-> "items",
                    count |-> IF fnResult.type = "items" THEN fnResult.count
                              ELSE 0]
    /\ fnStep' = "returned"
    /\ UNCHANGED <<fnArgs>>
    /\ UNCHANGED notFnVars

NormNext == NormExtracts \/ YouTubeBuildsResults \/ ItemsBuildResults

(***************************************************************************)
(* Successive cycles of run_daily_research on the store files.             *)
(*                                                                         *)
(* Each step is one cycle as the store files see it: the active list is    *)
(* loaded, or refreshed when it is empty; its keywords are researched; the *)
(* keywords the extractor returned are scored and added; the active        *)
(* keywords are stamped.  A cycle may end by an exception after the load   *)
(* or after the additions.  kmCall holds the researched keywords (terms),  *)
(* the master file before the cycle and the number of cycles.              *)
(***************************************************************************)

\* A cycle that refreshes the active list each time.
CycleActiveKeywordsRefreshed(master, active) ==
    RefreshActiveKeywords(master, RefreshLimit)

\* The active keywords of run_daily_research: the loaded list, or the one
\* refresh_active_keywords() returns when the loaded list is empty.
CycleActiveKeywords(master, active) ==
    IF LoadActiveKeywords(active) # << >> THEN LoadActiveKeywords(active)
    ELSE RefreshActiveKeywords(master, RefreshLimit)

\* What extract_new_keywords returns in a cycle: nothing without research
\* data.
CycleExtracted(loaded) ==
    IF loaded = << >> THEN { << >> }
    ELSE { << >>, << "rag" >>, << "rag", "ai" >>, << "llm", "llm" >> }

\* The loop over keyword_scores.items(): add_new_keyword for each key, with
\* the score of a keyword that n results mention.
RECURSIVE AddDiscovered(_, _, _)
AddDiscovered(master, keys, n) ==
    IF keys = << >> THEN master
    ELSE AddDiscovered(AddNewKeyword(master, Head(keys), Min(100, 50 + n * 5)),
                       Tail(keys), n)

CycleStages == {"load", "add", "completed"}

\* One cycle of run_daily_research: load or refresh, research, add the
\* scored keywords, mark the active keywords used.  The stage is where the
\* cycle ended.
KmRunDailyResearch ==
    /\ kmCall.calls < MaxCalls
    /\ LET loaded == CycleActiveKeywords(kmMaster, kmActive) IN
       \E stage \in CycleStages, n \in MentionCounts :
       \E keywords \in CycleExtracted(loaded) :
          LET added == AddDiscovered(kmMaster, DictKeys(keywords), n) IN
          /\ kmActive' = loaded
          /\ kmMaster' = CASE stage = "load" -> kmMaster
                           [] stage = "add" -> added
                           [] OTHER -> MarkKeywordsUsed(added, loaded)
          /\ kmCall' = KmCall("run_daily_research", stage, loaded,
                              n, kmMaster, stage = "completed", keywords)
    /\ UNCHANGED notStoreVars

CycleNext == KmRunDailyResearch

(***************************************************************************)
(* The specifications.                                                     *)
(***************************************************************************)

\* main() of ai_trend_researcher.py; no MCPClientManager is used by it.
Init ==
    /\ \E st \in InitialStores :
          /\ PipeInit(st)
          \* without the directory keywords/ there are no store files
          /\ keywordsDir \in {d \in BOOLEAN : ~d => st = EmptyStores}
    /\ MgrInit(DefaultServerConfigs)
    /\ ReportInit(NoRemoteSinks)
    /\ StoreInit(<< >>)
    /\ FnIdle

Next == Connect \/ Cycle \/ Shutdown

Spec == Init /\ [][Next]_vars

\* The event loop runs every task that is ready: a step that stays possible
\* is eventually taken.  (An await on an aclose that never completes is not
\* a possible step.)
FairSpec == Spec /\ WF_vars(Next)

\* main() with a termination signal delivered during the cycle, on a store
\* with one active keyword.
SigInit ==
    /\ PipeInit(OneKeywordStores)
    /\ keywordsDir = TRUE
    /\ MgrInit(DefaultServerConfigs)
    /\ ReportInit(NoRemoteSinks)
    /\ StoreInit(<< >>)
    /\ FnIdle

SigNext == Connect \/ Cycle \/ Shutdown \/ SigTask

SigSpec == SigInit /\ [][SigNext]_vars

FairSigSpec == SigSpec /\ WF_vars(SigNext)

\* A caller of an MCPClientManager; main() does not run.
MgrSpecInit ==
    /\ PipeInit(EmptyStores)
    /\ keywordsDir = TRUE
    /\ \E configs \in ServerConfigChoices : MgrInit(configs)
    /\ ReportInit(NoRemoteSinks)
    /\ StoreInit(<< >>)
    /\ FnIdle

MgrSpec == MgrSpecInit /\ [][MgrNext]_vars

\* A call of generate_all_reports on any ReportManager; main() does not
\* run and no MCPClientManager is used.
ReportSpecInit ==
    /\ PipeInit(EmptyStores)
    /\ MgrInit(DefaultServerConfigs)
    /\ \E g \in ReportManagers : ReportInit(g)
    /\ StoreInit(<< >>)
    /\ keywordsDir = TRUE
    /\ FnIdle

ReportSpec == ReportSpecInit /\ [][ReportNext]_vars

\* A caller of a KeywordManager; main() does not run.
StoreSpecInit ==
    /\ PipeInit(EmptyStores)
    /\ keywordsDir = TRUE
    /\ MgrInit(DefaultServerConfigs)
    /\ ReportInit(NoRemoteSinks)
    /\ \E master \in InitialMasters : StoreInit(master)
    /\ FnIdle

StoreSpec == StoreSpecInit /\ [][StoreNext]_vars

\* score_keywords, called on the lists and the research data above.
ScoreSpecInit ==
    /\ PipeInit(EmptyStores)
    /\ keywordsDir = TRUE
    /\ MgrInit(DefaultServerConfigs)
    /\ ReportInit(NoRemoteSinks)
    /\ StoreInit(<< >>)
    /\ ScoreInit

ScoreSpec == ScoreSpecInit /\ [][ScoreNext]_vars

\* extract_keywords, called on the research data and the replies above.
ExtractSpecInit ==
    /\ PipeInit(EmptyStores)
    /\ keywordsDir = TRUE
    /\ MgrInit(DefaultServerConfigs)
    /\ ReportInit(NoRemoteSinks)
    /\ StoreInit(<< >>)
    /\ ExtractInit

ExtractSpec == ExtractSpecInit /\ [][ExtractNext]_vars

\* create_notion_report, called on the reports above.
NotionSpecInit ==
    /\ PipeInit(EmptyStores)
    /\ keywordsDir = TRUE
    /\ MgrInit(DefaultServerConfigs)
    /\ ReportInit(NoRemoteSinks)
    /\ StoreInit(<< >>)
    /\ NotionInit

NotionSpec == NotionSpecInit /\ [][NotionNext]_vars

\* HackerNewsHandler.research_keyword, on the responses above.
HnSpecInit ==
    /\ PipeInit(EmptyStores)
    /\ keywordsDir = TRUE
    /\ MgrInit(DefaultServerConfigs)
    /\ ReportInit(NoRemoteSinks)
    /\ StoreInit(<< >>)
    /\ HnInit

HnSpec == HnSpecInit /\ [][HnNext]_vars


QuerySpecInit ==
    /\ PipeInit(EmptyStores)
    /\ keywordsDir = TRUE
    /\ MgrInit(DefaultServerConfigs)
    /\ ReportInit(NoRemoteSinks)
    /\ StoreInit(<< >>)
    /\ QueryInit

QuerySpec == QuerySpecInit /\ [][QueryNext]_vars


TrendSpecInit ==
    /\ PipeInit(EmptyStores)
    /\ keywordsDir = TRUE
    /\ MgrInit(DefaultServerConfigs)
    /\ ReportInit(NoRemoteSinks)
    /\ StoreInit(<< >>)
    /\ TrendInit

TrendSpec == TrendSpecInit /\ [][TrendNext]_vars

NormSpecInit ==
    /\ PipeInit(EmptyStores)
    /\ keywordsDir = TRUE
    /\ MgrInit(DefaultServerConfigs)
    /\ ReportInit(NoRemoteSinks)
    /\ StoreInit(<< >>)
    /\ NormInit

NormSpec == NormSpecInit /\ [][NormNext]_vars

\* Cycles of the pipeline, one after the other, on a registry that is empty
\* or seeded and an active list that is empty.
CycleSpecInit ==
    /\ PipeInit(EmptyStores)
    /\ keywordsDir = TRUE
    /\ MgrInit(DefaultServerConfigs)
    /\ ReportInit(NoRemoteSinks)
    /\ \E master \in InitialMasters : StoreInit(master)
    /\ FnIdle

CycleSpec == CycleSpecInit /\ [][CycleNext]_vars

(***************************************************************************)
(* Properties of the pipeline (Spec).                                      *)
(***************************************************************************)

\* The main flow is between the research loop and the end of the try block.
AfterResearch == pc \in {"extract", "score", "mark", "report", "notion", "record"}

\* The results accumulated for the pair (keyword, platform).
ResultsFor(keyword, platform) ==
    {i \in 1..Len(all_research_data) :
        /\ all_research_data[i].keyword = keyword
        /\ all_research_data[i].platform = platform}

\* C1: whenever control has left run_daily_research, by return or by an
\* exception of any stage, the session map is empty and every client that
\* reached Connected has been closed.
C1_SessionsReleasedOnEveryExit ==
    outcome # "running" =>
        /\ mcp_clients = << >>
        /\ \A s \in ServerSet : client[s].everConnected => IsClosed(client[s])

\* C1 witness: run_daily_research was left by an exception raised inside
\* extract_new_keywords, with a client that had been connected.
C1_Witness ==
    /\ outcome = "raised"
    /\ exc = "ExtractError"
    /\ \E s \in ServerSet : client[s].everConnected /\ IsClosed(client[s])

\* C2: once the research loop is over, the accumulated list holds exactly one
\* result for each pair of an active keyword and a platform, and nothing
\* else.
C2_OneResultPerPair ==
    AfterResearch =>
        /\ \A k \in Range(active_keywords), p \in Range(Platforms) :
              Cardinality(ResultsFor(k, p)) = 1
        /\ Len(all_research_data) = Len(active_keywords) * Len(Platforms)

\* C2 witness: report assembly is reached with two active keywords, one
\* platform without a client and one response that could not be processed.
C2_Witness ==
    /\ pc = "report"
    /\ Len(active_keywords) = 2
    /\ \E i \in 1..Len(attempts) : attempts[i].kind = "unavailable"
    /\ \E i \in 1..Len(attempts) : attempts[i].kind = "bad_response"

\* C3, as claimed: the result accumulated for a pair whose tool invocation
\* raised, or whose response could not be processed, carries an error.
C3_FailedPairsCarryError ==
    \A i \in 1..Len(all_research_data) :
        attempts[i].kind \in {"tool_error", "bad_response", "not_connected"}
            => all_research_data[i].error # "none"

\* C10: as long as the report file is not written (the write failed, or has
\* not happened yet) run_daily_research has not returned, no remote sink
\* was invoked and no execution record was written; and a failed write
\* leaves the function by that exception.
C10_ReportWriteFailureIsFatal ==
    /\ reportFile.written # "complete" =>
          /\ outcome # "returned"
          /\ notionCalls = 0
          /\ toolCalls["notion"] = 0
          /\ historyFile = << >>
    /\ (exc = "ReportWriteError" /\ outcome # "running") => outcome = "raised"

\* C10 witness: the write failed in a cycle whose notion client was
\* connected, and control has left run_daily_research.
C10_Witness ==
    /\ exc = "ReportWriteError"
    /\ reportFile = PartialReport
    /\ outcome = "raised"
    /\ client["notion"].everConnected

\* A first run: the process found no master file (and so no active file,
\* which only holds terms of the master file).  Without keywords a cycle
\* adds nothing to the master file.
FirstRun == masterFile = << >>

\* The exceptions of a disk that fails while a file is read or written.
DiskFaults ==
    {"LoadError", "MasterWriteError", "ReportWriteError", "HistoryWriteError"}

\* What a first run does when the disk does not fail: no (keyword, platform)
\* pair is researched and the completion service is not called (there is
\* no content); the try block is left by "return"; and once the cycle has
\* returned the active file holds the empty list, the report counts no
\* results and today's execution record says "completed".
BootstrapCompletes ==
    /\ attempts = << >>
    /\ ~HasContent(all_research_data)
    /\ \A s \in ServerSet \ {"notion"} : toolCalls[s] = 0
    /\ exc \in {"none"} \cup DiskFaults
    /\ outcome = "returned" =>
          /\ activeFile = << >>
          /\ reportFile.written = "complete"
          /\ reportFile.summary.total_results = 0
          /\ reportFile.detailed_results = << >>
          /\ DictGet(historyFile, Today) =
                [keywords |-> << >>, status |-> "completed",
                 new_keywords_found |-> 0]

\* C16, as claimed: a cycle that starts without any store (no master file,
\* no active file) refreshes the active list, leaves the empty list in the
\* active file, researches nothing, calls no completion service, and
\* completes with a report of 0 results and a "completed" record.
C16_FirstRunBootstraps == FirstRun => BootstrapCompletes

\* The same, for the first runs that find the directory keywords/.
FirstRunBootstrapsInKeywordsDir ==
    (FirstRun /\ keywordsDir) => BootstrapCompletes

\* A first run in keywords/ that returned.
FirstRunReturned == FirstRun /\ keywordsDir /\ outcome = "returned"

\* Control is inside the try block of run_daily_research.
InTryBlock ==
    pc \in {"connect", "connecting", "connect_cleanup", "load", "research"}
    \/ AfterResearch

\* The researched sources whose connection failed, and those connected.
FailedSources ==
    {p \in Range(Platforms) : client[p] = DroppedClient}

ConnectedSources ==
    {p \in Range(Platforms) : DictGet(mcp_clients, p) = "client"}

\* The platforms for which a result was attempted.
AttemptedPlatforms == {attempts[i].platform : i \in 1..Len(attempts)}

\* What can make run_daily_research raise: its store files and its report
\* file, the digest of extract_new_keywords, the iteration of the close-all.
CycleFaults ==
    DiskFaults \cup {"FileNotFoundError", "ExtractError", "RuntimeError"}

\* C17: a researched source whose connection failed is stored as None and
\* the cycle goes on: the failure is not among the exceptions that leave
\* run_daily_research; once the research loop is over there is a result
\* for every active keyword on the failed source; and the report's
\* platforms_searched is the number of platforms with at least one
\* attempted result, the failed source among them.
C17_FailedSourceStillResearched ==
    /\ InTryBlock =>
          \A p \in FailedSources : DictGet(mcp_clients, p) = "None"
    /\ exc \in {"none"} \cup CycleFaults
    /\ AfterResearch =>
          \A p \in FailedSources, k \in Range(active_keywords) :
              /\ Cardinality(ResultsFor(k, p)) = 1
              /\ \E i \in 1..Len(attempts) :
                    /\ attempts[i].platform = p
                    /\ attempts[i].keyword = k
                    /\ attempts[i].kind = "unavailable"
    /\ pc \in {"notion", "record"} =>
          /\ reportFile.summary.platforms_searched =
                Cardinality(AttemptedPlatforms)
          /\ active_keywords # << >> =>
                FailedSources \subseteq AttemptedPlatforms

\* C17 witness: the connection to one researched source failed and the
\* other one delivered items; two keywords were researched, the report
\* counts both platforms and the cycle is about to record its completion.
C17_Witness ==
    /\ pc = "record"
    /\ Cardinality(FailedSources) = 1
    /\ Cardinality(ConnectedSources) = 1
    /\ Len(active_keywords) = 2
    /\ \E i \in 1..Len(all_research_data) :
          /\ all_research_data[i].platform \in ConnectedSources
          /\ all_research_data[i].results > 0
    /\ reportFile.summary.platforms_searched = 2

\* C7, as claimed for the pipeline's close-all: once _close_all_mcp_clients
\* has started it eventually ends, whatever the transports do (a close that
\* never completes on its own is abandoned and the loop goes on).
C7_PipelineCloseAllTerminates ==
    (pc = "closeall") ~> (pc \in {"main_finally", "exiting", "done"})

(***************************************************************************)
(* MCPClientManager.                                                       *)
(***************************************************************************)

\* connect_all_servers has returned (or was left by an exception).
ConnectAllOver == op = "connect_all" /\ mpc = "idle"

\* close_all_clients has returned (or was left by an exception).
CloseAllOver == op = "close_all" /\ mpc = "idle"

\* C4: when connect_all_servers is over, no exception has left it, every
\* enabled entry was tried exactly once and no other entry was; a platform
\* whose connection succeeded is available, Connected and callable whatever
\* the others met, and one whose connection returned failure or raised is
\* stored as None (not available).
C4_ConnectFailuresIsolated ==
    ConnectAllOver =>
        /\ ~escaped
        /\ \A i \in 1..Len(server_configs) :
              LET e == server_configs[i]
                  p == e.platform
              IN  /\ tried[p] = IF e.enabled THEN 1 ELSE 0
                  /\ e.enabled => connectResult[p] # "none"
                  /\ connectResult[p] = "ok" =>
                        /\ IsPlatformAvailable(clients, p)
                        /\ objs[p].phase = "Connected"
                        /\ MgrCallToolAllowed(objs[p])
                        /\ GetAvailableTools(clients, objs, p)
                  /\ connectResult[p] \in {"failed", "raised"} =>
                        /\ ~IsPlatformAvailable(clients, p)
                        /\ DictGet(clients, p) = "None"

\* A connect_all_servers whose first connection returned failure and whose
\* last one succeeded.
C4_Witness ==
    /\ ConnectAllOver
    /\ connectResult["youtube"] = "failed"
    /\ connectResult["github"] = "ok"
    /\ IsPlatformAvailable(clients, "github")

\* C5: a call_tool reaches the session exactly when the client is Connected;
\* on a client in any other phase it raises the not-connected exception.
C5_CallToolOnlyWhenConnected ==
    lastCall # NoCall =>
        /\ lastCall.reached <=> lastCall.phase = "Connected"
        /\ lastCall.phase # "Connected" => lastCall.result = "NotConnected"

\* A call_tool on a client whose connection failed after the session was
\* assigned, made when some client of the manager was closed.
C5_Witness ==
    /\ lastCall.phase = "ConnectFailed"
    /\ lastCall.session = "set"
    /\ lastCall.result = "NotConnected"
    /\ \E p \in MgrPlatforms : objs[p].phase = "Closed"

\* C6: when close_all_clients is over, no exception has left it,
\* self.clients is empty, every client it held is Closed whatever the close
\* of the others met, and no other client has changed: a call made with an
\* empty self.clients (any call after the first) changes nothing.
C6_CloseAllIdempotent ==
    CloseAllOver =>
        /\ ~escaped
        /\ clients = << >>
        /\ \A p \in Held(before.clients) : MgrIsClosed(objs[p])
        /\ \A p \in MgrPlatforms \ Held(before.clients) :
              objs[p] = before.objs[p]
        /\ before.clients = << >> => objs = before.objs

\* A second close_all_clients, after a first one in which the close of the
\* first client raised and the second client was closed.
C6_Witness ==
    /\ CloseAllOver
    /\ before.clients = << >>
    /\ objs["youtube"].phase = "Closed" /\ objs["youtube"].res = "failed"
    /\ objs["github"].phase = "Closed" /\ objs["github"].res = "released"
    /\ MgrIsClosed(objs["youtube"]) /\ MgrIsClosed(objs["github"])

(***************************************************************************)
(* Termination signals.                                                    *)
(***************************************************************************)

\* C8, as claimed: once a termination signal was delivered, the process
\* eventually exits with a status other than 0, whatever the transports do.
C8_SignalForcesNonZeroExit ==
    (sig # "none") ~> (proc.state = "exited" /\ proc.status # 0)

(***************************************************************************)
(* ReportManager.                                                          *)
(***************************************************************************)

\* The generators that ran, in order.
SinksRun == [i \in 1..Len(sinkLog) |-> sinkLog[i].sink]

\* The remote generators the ReportManager has, in the order of the calls.
RemoteSinks ==
    (IF generators.notion_client # "None" THEN << "notion" >> ELSE << >>)
    \o (IF generators.supabase_client # "None"
        THEN << "supabase" >> ELSE << >>)

\* C9: a remote generator only runs after the JSON report was written, and
\* the file stays written; when the file was written the call ends by
\* returning the file's path, after every remote generator the manager has
\* was run once, in order, whatever the other one met; only a failed JSON
\* write makes the call raise.
C9_RemoteSinksAreBestEffort ==
    /\ sinkLog # << >> => sinkLog[1].sink = "json" /\ jsonFile = "complete"
    /\ (rpc = "done" /\ jsonFile = "complete") =>
          /\ returned = "report_file"
          /\ SinksRun = << "json" >> \o RemoteSinks
    /\ returned = "raised" => jsonFile # "complete" /\ sinkLog = << >>

\* A call in which create-page raised the not-connected exception, and the
\* Supabase generator ran after it and the path was returned.
C9_Witness ==
    /\ rpc = "done"
    /\ returned = "report_file"
    /\ jsonFile = "complete"
    /\ Len(sinkLog) = 3
    /\ sinkLog[2] = [sink |-> "notion", outcome |-> "NotConnected"]
    /\ sinkLog[3] = [sink |-> "supabase", outcome |-> "content"]

(***************************************************************************)
(* The keyword store (StoreSpec).                                          *)
(***************************************************************************)

\* The last call was an add_new_keyword, made directly or by the cycle's
\* score-and-persist step.
AddCalled == kmCall.op \in {"add_new_keyword", "score_and_add"}

\* The position of a term in a master file (0 when it is not there).
PositionOf(master, keyword) ==
    IF keyword \in Terms(master)
    THEN CHOOSE i \in 1..Len(master) : master[i].term = keyword
    ELSE 0

\* C11: add_new_keyword on a term the master file holds returns False and
\* leaves the whole file as it was (score, source, created_date, last_used
\* and discovered_from of every record); on a term it does not hold it
\* returns True and adds exactly one record, for that term, with the given
\* score and last_used null, every other record unchanged.
C11_AddNewKeywordNeverOverwrites ==
    AddCalled =>
        IF kmCall.term \in Terms(kmCall.before)
        THEN /\ kmCall.ret = FALSE
             /\ kmMaster = kmCall.before
        ELSE /\ kmCall.ret = TRUE
             /\ Len(kmMaster) = Len(kmCall.before) + 1
             /\ SubSeq(kmMaster, 1, Len(kmCall.before)) = kmCall.before
             /\ kmMaster[Len(kmMaster)].term = kmCall.term
             /\ kmMaster[Len(kmMaster)].score = kmCall.num
             /\ kmMaster[Len(kmMaster)].last_used = "null"
             /\ kmMaster[Len(kmMaster)].created_date = Today

\* C11 witness: add_new_keyword with another score and source was called
\* on a term whose record was created and used on an earlier day, and
\* returned False.
C11_Witness ==
    /\ kmCall.op = "add_new_keyword"
    /\ kmCall.ret = FALSE
    /\ kmCall.term \in Terms(kmMaster)
    /\ LET r == kmMaster[PositionOf(kmMaster, kmCall.term)]
       IN  /\ r.score # kmCall.num
           /\ r.source = "seed"
           /\ r.last_used = Yesterday
           /\ r.created_date = Yesterday

\* C11 witness of the other case: a term the file did not hold was added
\* behind the records the file had.
C11_WitnessInserted ==
    /\ kmCall.op = "add_new_keyword"
    /\ kmCall.ret = TRUE
    /\ Len(kmCall.before) = 2
    /\ Len(kmMaster) = 3

\* The score a master file holds for a term.
ScoreOf(master, keyword) == master[PositionOf(master, keyword)].score

\* a comes before b in the ranking of a master file: by higher score,
\* and by registry order among equal scores.
RanksBefore(master, a, b) ==
    \/ ScoreOf(master, a) > ScoreOf(master, b)
    \/ /\ ScoreOf(master, a) = ScoreOf(master, b)
       /\ PositionOf(master, a) < PositionOf(master, b)

\* C12: refresh_active_keywords(limit), limit >= 0, returns and saves the
\* first min(limit, |master|) terms of the master file in the order of
\* descending score, equal scores in registry order: at most limit terms,
\* all of the master file, none twice, scores non-increasing, and
\* load_active_keywords then returns the same list.
C12_RefreshSavesTopKeywords ==
    kmCall.op = "refresh_active_keywords" =>
        LET list == kmCall.list
            master == kmCall.before
        IN  /\ kmActive = list
            /\ LoadActiveKeywords(kmActive) = list
            /\ Len(list) = Min(kmCall.num, Len(master))
            /\ Len(list) <= kmCall.num
            /\ Range(list) \subseteq Terms(master)
            /\ \A i, j \in 1..Len(list) : i < j =>
                  /\ RanksBefore(master, list[i], list[j])
                  /\ ScoreOf(master, list[i]) >= ScoreOf(master, list[j])
            /\ \A t \in Terms(master) \ Range(list) :
                  \A i \in 1..Len(list) : RanksBefore(master, list[i], t)
            /\ kmMaster = master

\* C12 witness: a refresh with a limit below the size of the master file,
\* which holds two terms of equal score; the one registered first is in
\* the list and the other is not.
C12_Witness ==
    /\ kmCall.op = "refresh_active_keywords"
    /\ kmCall.num = 2
    /\ Len(kmCall.before) = 3
    /\ Len(kmCall.list) = 2
    /\ \E t \in Terms(kmCall.before) \ Range(kmCall.list) :
          ScoreOf(kmCall.before, t) = ScoreOf(kmCall.before, kmCall.list[2])

\* C13, as claimed: whatever integer scores the callers of add_new_keyword,
\* update_keyword_score, mark_keywords_used and the cycle's score-and-persist
\* step pass, every score the master file holds lies within [0, 100].
C13_MasterScoresWithinRange ==
    \A i \in 1..Len(kmMaster) :
        kmMaster[i].score >= 0 /\ kmMaster[i].score <= 100

\* C15: mark_keywords_used(keywords) sets last_used of every listed term the
\* master file holds to today and changes nothing else: no record is added
\* for a listed term the file does not hold, no other field and no record
\* of an unlisted term changes, and a second call with the same list on the
\* same day leaves the file as the first left it.
C15_MarkKeywordsUsedOnlyStamps ==
    kmCall.op = "mark_keywords_used" =>
        /\ Len(kmMaster) = Len(kmCall.before)
        /\ \A i \in 1..Len(kmMaster) :
              LET was == kmCall.before[i]
                  is == kmMaster[i]
              IN  IF was.term \in Range(kmCall.terms)
                  THEN is = [was EXCEPT !.last_used = Today]
                  ELSE is = was
        /\ MarkKeywordsUsed(kmMaster, kmCall.terms) = kmMaster

\* C15 witness: the list named a term the master file holds, last used on
\* an earlier day, and a term it does not hold, next to a record that was
\* not listed and had never been used.
C15_Witness ==
    /\ kmCall.op = "mark_keywords_used"
    /\ \E i \in 1..Len(kmCall.terms) :
          kmCall.terms[i] \notin Terms(kmCall.before)
    /\ \E i \in 1..Len(kmCall.before) :
          /\ kmCall.before[i].term \in Range(kmCall.terms)
          /\ kmCall.before[i].last_used # Today
          /\ kmMaster[i].last_used = Today
    /\ \E i \in 1..Len(kmCall.before) :
          /\ kmCall.before[i].term \notin Range(kmCall.terms)
          /\ kmMaster[i].last_used = "null"

(***************************************************************************)
(* score_keywords (ScoreSpec).                                             *)
(***************************************************************************)

\* The serialized result holds the keyword at some offset, letter by
\* letter, whatever the case of either.
HoldsIgnoringCase(data, keyword) ==
    LET text == StrOfResult(data)
    IN  \E i \in 0..(Len(text) - Len(keyword)) :
            \A j \in 1..Len(keyword) :
                LowerChar(text[i + j]) = LowerChar(keyword[j])

\* The number of results that hold the keyword.
Matches(research_data, keyword) ==
    Cardinality({i \in 1..Len(research_data) :
                    HoldsIgnoringCase(research_data[i], keyword)})

\* C14: score_keywords maps each keyword of its list, and nothing else, to
\* min(100, 50 + 5 n), where n is the number of results whose serialized
\* form holds the keyword whatever the case; the score lies within
\* [50, 100], does not decrease when n grows, and is 65 for three matches.
C14_ScoreIsCappedMentionCount ==
    (fnArgs.fn = "score_keywords" /\ fnStep = "returned") =>
        /\ DOMAIN fnResult.scores = Range(fnArgs.keywords)
        /\ \A keyword \in Range(fnArgs.keywords) :
              LET n == Matches(fnArgs.research_data, keyword)
                  score == fnResult.scores[keyword]
              IN  /\ score = Min(100, 50 + 5 * n)
                  /\ score >= 50 /\ score <= 100
                  /\ n = 3 => score = 65
                  /\ \A other \in DOMAIN fnResult.scores :
                        Matches(fnArgs.research_data, other) <= n
                            => fnResult.scores[other] <= score

\* C14 witness: one call scored a keyword written in capitals that three
\* results hold in other cases or inside a word, and a keyword that more
\* than ten results hold.
C14_Witness ==
    /\ fnArgs.fn = "score_keywords"
    /\ fnStep = "returned"
    /\ \E keyword \in DOMAIN fnResult.scores :
          /\ keyword = << "A", "I" >>
          /\ Matches(fnArgs.research_data, keyword) = 3
          /\ fnResult.scores[keyword] = 65
          /\ \E i \in 1..Len(fnArgs.research_data) :
                /\ HoldsIgnoringCase(fnArgs.research_data[i], keyword)
                /\ fnArgs.research_data[i].keyword # keyword

\* A call in which more than ten results held a keyword, scored 100.
C14_WitnessCapped ==
    /\ fnArgs.fn = "score_keywords"
    /\ fnStep = "returned"
    /\ \E keyword \in DOMAIN fnResult.scores :
          /\ Matches(fnArgs.research_data, keyword) > 10
          /\ fnResult.scores[keyword] = 100

(***************************************************************************)
(* extract_keywords (ExtractSpec).                                         *)
(***************************************************************************)

\* C18, as claimed: extract_keywords never raises; whatever the items of
\* the research data hold for title, description and snippet (nothing,
\* None, something that is no text) and whatever the completion service
\* does, it returns a list of texts, and the empty list whenever a step of
\* it met an error.
C18_ExtractKeywordsNeverRaises ==
    (fnArgs.fn = "extract_keywords" /\ fnStep \in {"returned", "raised"}) =>
        /\ fnResult.kind = "returned"
        /\ fnResult.errored => fnResult.list = << >>

(***************************************************************************)
(* create_notion_report (NotionSpec).                                      *)
(***************************************************************************)

\* The call handed its blocks to create-page.
Submitted == fnStep = "returned" /\ fnResult.kind \in {"created", "call_failed"}

\* C19, as claimed: whatever the size of the report, the children that
\* create_notion_report hands to create-page are at most 20 blocks, and
\* the text of each of them is at most 2000 characters long.
C19_SubmittedBlocksWithinLimits ==
    (fnArgs.fn = "create_notion_report" /\ Submitted) =>
        /\ Len(fnResult.children) <= 20
        /\ \A i \in 1..Len(fnResult.children) :
              fnResult.children[i].content <= 2000

\* The part of it about the number of blocks.
SubmittedBlockCountWithinLimit ==
    (fnArgs.fn = "create_notion_report" /\ Submitted) =>
        Len(fnResult.children) <= 20

\* A call that cut its blocks down to 20.
SubmittedFirstTwentyBlocks ==
    /\ fnArgs.fn = "create_notion_report"
    /\ Submitted
    /\ Len(CreateSimpleNotionBlocks(fnArgs.report)) > 20
    /\ Len(fnResult.children) = 20

(***************************************************************************)
(* HackerNewsHandler.research_keyword (HnSpec).                            *)
(***************************************************************************)

\* A post whose title or score is missing or the placeholder.
PostLacksKeyField(post) ==
    \/ post.title \in {"undefined", "missing"}
    \/ post.score \in {"undefined", "None", "missing"}

\* A response that is empty, or more than half of whose posts lack a key
\* field.
Unusable(posts) ==
    \/ posts = << >>
    \/ 2 * Cardinality({i \in 1..Len(posts) : PostLacksKeyField(posts[i])})
          > Len(posts)

\* C20, as claimed: research_keyword never returns a populated result built
\* from a response that is empty or more than half of whose posts have a
\* missing or placeholder title or score, whichever operation gave the
\* response (the search, a broader search, or the top stories).
C20_NoResultFromUnusableResponse ==
    (fnArgs.fn = "research_keyword" /\ fnResult.kind = "populated") =>
        ~Unusable(fnResult.posts)

\* The part of it that holds: a populated result of a search or a broader
\* search is never built from a response that _has_undefined_values
\* rejects.
SearchResultsPassTheCheck ==
    (/\ fnArgs.fn = "research_keyword"
     /\ fnResult.kind = "populated"
     /\ fnResult.op \in {"search", "broader_search"}) =>
        ~HasUndefinedValues(fnResult.posts)

\* A populated result built from top stories whose titles are all the
\* placeholder.
TopStoriesResultFromPlaceholders ==
    /\ fnArgs.fn = "research_keyword"
    /\ fnResult.kind = "populated"
    /\ fnResult.op = "getStories"
    /\ fnResult.posts # << >>
    /\ \A i \in 1..Len(fnResult.posts) : fnResult.posts[i].title = "undefined"


(***************************************************************************)
(* Properties of the query translation and of the searches (QuerySpec).    *)
(***************************************************************************)

\* The completion service was not available to the translation, or its
\* call raised.
TranslationUnserved == fnResult.translate \in {"unavailable", "raised"}

\* The primary search of the adapter was called: the first tool call of
\* ArxivHandler, the second one of HackerNewsHandler.
SearchInvoked ==
    fnResult.calls >= (IF fnArgs.fn = "hackernews.research_keyword" THEN 2
                       ELSE 1)

\* C21, as claimed: in ArxivHandler and in HackerNewsHandler, whenever the
\* completion service is not available or its call raises, the query is
\* what the fallback dictionary gives for the keyword (the keyword itself
\* without an entry), and research_keyword goes on to the call of the
\* search tool instead of returning an error result.
C21_TranslationFallsBackToDictionary ==
    (fnArgs.fn \in {"arxiv.research_keyword", "hackernews.research_keyword"}
     /\ TranslationUnserved) =>
        /\ fnResult.english_query =
              TranslateKeywordToEnglishFallback(fnArgs.keyword)
        /\ fnStep = "returned" => SearchInvoked

\* The part of it that holds: HackerNewsHandler translates with the
\* dictionary and calls the search.
HackerNewsTranslationFallsBack ==
    (fnArgs.fn = "hackernews.research_keyword" /\ TranslationUnserved) =>
        /\ fnResult.english_query =
              TranslateKeywordToEnglishFallback(fnArgs.keyword)
        /\ fnStep = "returned" => SearchInvoked

\* ArxivHandler without a client returns an error result and calls no tool.
ArxivWithoutClientReturnsError ==
    /\ fnArgs.fn = "arxiv.research_keyword"
    /\ fnResult.translate = "unavailable"
    /\ fnStep = "returned"
    /\ fnResult.kind = "error"
    /\ fnResult.calls = 0

\* ArxivHandler searches for the keyword as written, although the
\* dictionary has an entry for it, when the call of the service raised.
ArxivSearchesUntranslatedKeyword ==
    /\ fnArgs.fn = "arxiv.research_keyword"
    /\ fnResult.translate = "raised"
    /\ fnResult.calls >= 1
    /\ fnResult.english_query = fnArgs.keyword
    /\ TranslateKeywordToEnglishFallback(fnArgs.keyword) # fnArgs.keyword


\* The tool calls one research_keyword call of the adapter may make: the
\* primary search and one broadened search of ArxivHandler; the top
\* stories, the primary search, three broadened searches and the top
\* stories again of HackerNewsHandler.
ToolCallLimit ==
    IF fnArgs.fn = "hackernews.research_keyword" THEN 6 ELSE 2

\* C23, as claimed: one research_keyword call makes at most 2 tool calls in
\* ArxivHandler and at most 6 in HackerNewsHandler, whatever the length of
\* the keyword and whatever the completion service answers, also when it
\* raises while suggesting broader keywords.
C23_ToolCallsAreBounded ==
    fnArgs.fn \in {"arxiv.research_keyword", "hackernews.research_keyword"} =>
        fnResult.calls <= ToolCallLimit

\* The part of it that holds: ArxivHandler makes at most two calls.
ArxivToolCallsAreBounded ==
    fnArgs.fn = "arxiv.research_keyword" => fnResult.calls <= 2

\* More than three broadened searches are pending or made: the loop goes
\* through the characters of the query.
BroadenedSearchPerCharacter ==
    /\ fnArgs.fn = "hackernews.research_keyword"
    /\ fnStep = "returned"
    /\ fnResult.calls > 6
    /\ fnResult.calls = Len(fnResult.english_query) + 3


(***************************************************************************)
(* Properties of the trend scores (TrendSpec).                             *)
(***************************************************************************)

TrendScoreReturned ==
    /\ fnStep = "returned"
    /\ fnArgs.fn \in {"github.trend_score", "arxiv.trend_score",
                      "hackernews.trend_score"}

\* The score is between 0 and 100.
TrendScoreInRange ==
    TrendScoreReturned =>
        fnResult.trend_score >= 0 /\ fnResult.trend_score <= 10000

\* An item that differs from the scored one in its age only, and is older,
\* does not score higher.
TrendScoreMonotoneInRecency ==
    TrendScoreReturned =>
        \A older \in AgeArgs :
            older > fnArgs.days_old =>
                fnResult.trend_score >= TrendScoreAtAge(fnArgs, older)

\* C22, as claimed: for all integer inputs within the bounds, the trend
\* score of GitHubHandler, of ArxivHandler and of HackerNewsHandler is
\* between 0 and 100, and of two items that differ in their age only (the
\* age 0 included) the newer one scores at least as high as the older one.
C22_TrendScoreBoundedAndMonotone ==
    TrendScoreInRange /\ TrendScoreMonotoneInRecency

\* The part of it that holds: the scores of ArxivHandler and of
\* HackerNewsHandler are in range and monotone in recency.
PaperAndPostScoresBoundedAndMonotone ==
    fnArgs.fn \in {"arxiv.trend_score", "hackernews.trend_score"} =>
        C22_TrendScoreBoundedAndMonotone

\* A repository created today scores 0, below the same repository a day
\* old.
NewestRepositoryScoresLowest ==
    /\ fnStep = "returned"
    /\ fnArgs.fn = "github.trend_score"
    /\ fnArgs.days_old = 0
    /\ fnArgs.stars > 0
    /\ fnResult.trend_score = 0
    /\ TrendScoreAtAge(fnArgs, 1) > 0

\* A repository of a day or more, with a star count that is not negative,
\* scores between 0 and 100 and at least as high as an older one with the
\* same stars.
AgedRepositoryScoresMonotone ==
    (TrendScoreReturned /\ fnArgs.fn = "github.trend_score"
     /\ fnArgs.days_old >= 1 /\ fnArgs.stars >= 0) =>
        /\ fnResult.trend_score >= 0
        /\ fnResult.trend_score <= 10000
        /\ \A older \in AgeArgs :
              older > fnArgs.days_old =>
                  fnResult.trend_score >= TrendScoreAtAge(fnArgs, older)


(***************************************************************************)
(* Properties of the normalization of responses (NormSpec).                *)
(***************************************************************************)

NormReturned ==
    /\ fnStep = "returned"
    /\ fnArgs.fn \in {"youtube.process_response", "github.process_response",
                      "hackernews.process_response"}

\* The response is a list whose first element carries a JSON text that
\* describes items.
JsonTextPayload ==
    /\ fnArgs.response.shape = "text_list"
    /\ fnArgs.response.text \in {"json_list", "json_dict"}

\* C24, as claimed: in every adapter process_response raises for no shape
\* of the response, and a list whose first element carries a JSON text
\* describing k well-formed items is normalized to k results.
C24_JsonPayloadIsNormalized ==
    NormReturned =>
        /\ fnResult.kind = "results"
        /\ JsonTextPayload => fnResult.count = fnArgs.response.count

\* The part of it that holds: HackerNewsHandler never raises and gives the
\* k results, and YouTubeHandler gives the k results.
PostsAndVideosAreNormalized ==
    (NormReturned /\ JsonTextPayload
     /\ fnArgs.fn # "github.process_response") =>
        /\ fnResult.kind = "results"
        /\ fnResult.count = fnArgs.response.count

\* GitHubHandler builds no result from a JSON text that describes items.
RepositoriesOfJsonTextAreLost ==
    /\ NormReturned
    /\ fnArgs.fn = "github.process_response"
    /\ JsonTextPayload
    /\ fnArgs.response.count > 0
    /\ fnResult.kind = "results"
    /\ fnResult.count = 0

\* YouTubeHandler.process_response raises.
VideoNormalizationRaises ==
    /\ NormReturned
    /\ fnArgs.fn = "youtube.process_response"
    /\ fnResult.kind = "raises"


(***************************************************************************)
(* More properties of MCPClientManager (MgrSpec).                          *)
(***************************************************************************)

\* C25, as claimed: when a sequence of connect_all_servers and
\* close_all_clients calls ends with a close_all_clients, no client that
\* reached Connected is left unclosed; a second connect_all_servers
\* without a close in between replaces no connected client of the session
\* map without closing it.
C25_NoConnectedClientLeftUnclosed ==
    (op = "close_all" /\ mpc = "idle") => replaced = {}

\* The part of it that holds: after one connect_all_servers and a
\* close_all_clients no client is connected any more.
SingleConnectAllLeavesNoneConnected ==
    (op = "close_all" /\ mpc = "idle" /\ connects <= 1) =>
        /\ replaced = {}
        /\ \A p \in MgrPlatforms : objs[p].phase # "Connected"

\* close_all_clients returned after a second connect_all_servers had put a
\* new client in the place of a connected one, which nothing closed.
ReplacedClientNeverClosed ==
    /\ op = "close_all"
    /\ mpc = "idle"
    /\ clients = << >>
    /\ connects = 2
    /\ replaced # {}


(***************************************************************************)
(* More properties of the signal handler's task (SigSpec).                 *)
(***************************************************************************)

\* aclose was called at most once on the exit stack of each client.
ExitStacksClosedAtMostOnce ==
    \A platform \in DOMAIN client : client[platform].acloseCalls <= 1

\* The _close_all_mcp_clients of the handler's task ended with the
\* RuntimeError of its iterator: the process exited without
\* self.mcp_clients.clear().
SigCloseAllRaised == sig = "exited" /\ mcp_clients # << >>

\* C26, as claimed: when the task of the signal handler and the main flow
\* work on the session map interleaved at their awaits, aclose is called at
\* most once on each client's exit stack, and no _close_all_mcp_clients
\* raises, be it that of the main flow or that of the handler's task.
C26_InterleavedCloseAllsAreSafe ==
    /\ ExitStacksClosedAtMostOnce
    /\ exc # "RuntimeError"
    /\ ~SigCloseAllRaised


(***************************************************************************)
(* The execution history and the stores across the cycle (Spec).           *)
(***************************************************************************)

\* Every record of the execution history has the status "completed".
HistoryRecordsCompleted ==
    \A i \in 1..Len(historyFile) : historyFile[i].val.status = "completed"

\* A cycle that left its try block with an exception wrote no record.
FailedCycleKeepsHistory == exc # "none" => historyFile = << >>

\* The history is written by the last statement of the try block only: the
\* active keywords are stamped in master, the report file is written, and
\* the cycle returns.
HistoryWrittenAtTheEnd ==
    historyFile' # historyFile =>
        /\ pc = "record"
        /\ masterFile = MarkKeywordsUsed(masterFile, active_keywords)
        /\ reportFile = BuildReport(all_research_data, new_keywords)
        /\ exc' = "none"

CycleCompleted ==
    /\ pc \in {"closeall", "close_wait"}
    /\ closer = "run"
    /\ exc = "none"

\* The records add_new_keyword inserted into master in this cycle, and the
\* terms master held before it.
InsertedRecords ==
    {i \in 1..Len(masterFile) : masterFile[i].created_date = Today}

EarlierTerms ==
    {masterFile[i].term : i \in (1..Len(masterFile)) \ InsertedRecords}

\* An extracted keyword was in master before the cycle, or the extractor
\* returned a keyword more than once.
ExtractedKnownOrRepeated ==
    \/ \E i \in 1..Len(new_keywords) : new_keywords[i] \in EarlierTerms
    \/ \E i, j \in 1..Len(new_keywords) :
          i # j /\ new_keywords[i] = new_keywords[j]

\* C30: in every completed cycle the new_keywords_found of the execution
\* record equals summary.new_keywords_found of the report and the number of
\* keywords the extractor returned; it is at least the number of records
\* inserted into master in the cycle, and more than that whenever an
\* extracted keyword was in master already or was returned more than once.
C30_FoundCountsExtractedKeywords ==
    CycleCompleted =>
        LET found == DictGet(historyFile, Today).new_keywords_found IN
        /\ found = reportFile.summary.new_keywords_found
        /\ found = Len(new_keywords)
        /\ found >= Cardinality(InsertedRecords)
        /\ ExtractedKnownOrRepeated => found > Cardinality(InsertedRecords)

\* A completed cycle whose extractor returned a keyword twice: two keywords
\* found, one record inserted.
C30_Witness ==
    /\ CycleCompleted
    /\ ExtractedKnownOrRepeated
    /\ DictGet(historyFile, Today).new_keywords_found = 2
    /\ Cardinality(InsertedRecords) = 1


\* C28: starting from store files that are empty or absent, after any
\* sequence of operations of the keyword store and of cycles of the
\* pipeline, every term of the saved active list is a key of the master
\* registry: kmActive and kmMaster under the operations of KeywordManager,
\* activeFile and masterFile in the cycle.
C28_ActiveTermsAreMasterKeys ==
    /\ Range(kmActive) \subseteq Terms(kmMaster)
    /\ Range(activeFile) \subseteq Terms(masterFile)

\* A registry built from nothing by add_new_keyword, refreshed into an
\* active list, and stamped or extended after that.
C28_Witness ==
    /\ kmActive # << >>
    /\ \A i \in 1..Len(kmMaster) : kmMaster[i].source # "seed"
    /\ kmCall.op \in {"mark_keywords_used", "add_new_keyword", "score_and_add"}
    /\ kmCall.calls = MaxCalls


(***************************************************************************)
(* Properties of successive cycles (CycleSpec).                            *)
(***************************************************************************)

\* The terms a cycle inserted into master.
InsertedTerms == Terms(kmMaster') \ Terms(kmMaster)

\* A cycle that finds the active list non-empty leaves it as it is and
\* researches its keywords only; what it inserts into master is not in the
\* list.
LoadedListIsKept ==
    kmActive # << >> =>
        /\ kmActive' = kmActive
        /\ kmCall'.terms = kmActive
        /\ InsertedTerms \cap Range(kmActive') = {}

\* C29: across any sequence of cycles the active list is rebuilt only when
\* it is loaded empty; once it is non-empty no cycle changes it, so the
\* keywords discovered and inserted into master, even with a higher score
\* than every active keyword, never enter the active list and are not
\* researched in later cycles.
C29_ActiveListRebuiltOnlyWhenEmpty ==
    [][LoadedListIsKept /\ (kmActive' # kmActive => kmActive = << >>)]_vars

\* A later cycle researched the active list while master held, since an
\* earlier cycle, a discovered keyword that scores higher than every active
\* keyword and is not in the list.
C29_Witness ==
    /\ kmCall.op = "run_daily_research"
    /\ kmCall.calls >= 2
    /\ kmActive # << >>
    /\ kmCall.terms = kmActive
    /\ \E i \in 1..Len(kmCall.before) :
          /\ kmCall.before[i].source = "discovered"
          /\ kmCall.before[i].term \notin Range(kmActive)
          /\ \A a \in Range(kmActive) :
                ScoreOf(kmMaster, a) < kmCall.before[i].score

=============================================================================
